---- MODULE Spec2Model ----
(***************************************************************************)
(* The remote-I/O (RIO) client and server transport of fdio (remoteio.c):  *)
(* the message codec, the transaction engine zxrio_txn, the operations     *)
(* built on it (ioctl, read/write, close) and the open/connect negotiator. *)
(*                                                                         *)
(* Handles are modelled by a small kernel ledger k = [live, log]: live is  *)
(* the set of handle values this process holds open, log is the sequence   *)
(* of kernel calls <<kind, handle, count>> made by the operation that was  *)
(* called last.  A handle is leaked when it is live at return and was not  *)
(* handed back to the caller; it is closed twice when the log holds two    *)
(* "close" entries for it.                                                 *)
(***************************************************************************)
EXTENDS Integers, Sequences, FiniteSets, TLC

VARIABLES rio,      \* the connection object zxrio_t: [alloc, h, h2, txid]
          live,     \* handle values open in this process
          call,     \* name of the operation that ran last
          args,     \* its inputs
          ret,      \* its return value
          msg,      \* the zxrio_msg_t it worked on, as left at return
          out,      \* its output parameter (out_buf, *out, the object built)
          log,      \* kernel calls it made, in order
          closes    \* zx_handle_close calls per connection handle, since creation

vars == <<rio, live, call, args, ret, msg, out, log, closes>>

(***************************************************************************)
(* Constants of the headers (fdio/remoteio.h, zircon/errors.h, limits.h).  *)
(***************************************************************************)
FDIO_CHUNK_SIZE == 8192
FDIO_MAX_HANDLES == 3
FDIO_IOCTL_MAX_INPUT == 1024
ZXRIO_HDR_SZ == 48
PATH_MAX == 4096
ZX_HANDLE_INVALID == 0

ZX_OK == 0
ZX_ERR_INTERNAL == -1
ZX_ERR_NOT_SUPPORTED == -2
ZX_ERR_NO_RESOURCES == -3
ZX_ERR_CALL_FAILED == -5
ZX_ERR_INVALID_ARGS == -10
ZX_ERR_BAD_HANDLE == -11
ZX_ERR_WRONG_TYPE == -12
ZX_ERR_BUFFER_TOO_SMALL == -15
ZX_ERR_PEER_CLOSED == -24
ZX_ERR_IO == -40
ZX_ERR_BAD_PATH == -50

ZXRIO_STATUS == 0
ZXRIO_CLOSE == 1
ZXRIO_OPEN == 259
ZXRIO_READ == 5
ZXRIO_WRITE == 6
ZXRIO_IOCTL == 10
ZXRIO_IOCTL_1H == 266
ZXRIO_IOCTL_2H == 522
ZXRIO_READ_AT == 12
ZXRIO_WRITE_AT == 13
ZXRIO_ON_OPEN == 7

\* ZXRIO_OP(n) is (n & 0x3FF)
ZXRIO_OP(n) == n % 1024

(***************************************************************************)
(* Handle values.  The connection's handles are 1 (control) and 2 (event); *)
(* an operation's own handles are numbered from a base per role.           *)
(***************************************************************************)
RioHandles == {1, 2}
OutHandle(i) == 10 + i       \* i-th handle the caller put in a request
ReplyHandle(i) == 20 + i     \* i-th handle the transport delivered with a reply

\* zxrio_msg_t.handle[4]
NoHandles == <<0, 0, 0, 0>>

(***************************************************************************)
(* The kernel ledger.                                                      *)
(***************************************************************************)
Kernel(l) == [live |-> l, log |-> <<>>]

Syscall(k, kind, h, n) == [k EXCEPT !.log = Append(@, <<kind, h, n>>)]

\* zx_handle_close(h)
zx_handle_close(k, h) ==
    [live |-> k.live \ {h}, log |-> Append(k.log, <<"close", h, 0>>)]

\* number of zx_handle_close(h) calls in a log
RECURSIVE CloseCount(_, _)
CloseCount(l, h) ==
    IF l = <<>> THEN 0
    ELSE (IF Head(l)[1] = "close" /\ Head(l)[2] = h THEN 1 ELSE 0)
         + CloseCount(Tail(l), h)

\* number of kernel calls of one kind in a log
RECURSIVE KindCount(_, _)
KindCount(l, kind) ==
    IF l = <<>> THEN 0
    ELSE (IF Head(l)[1] = kind THEN 1 ELSE 0) + KindCount(Tail(l), kind)

(***************************************************************************)
(* Wire message codec.                                                     *)
(***************************************************************************)
\* is_message_valid with >= for > in both comparisons
is_message_valid_ge(m) ==
    IF (m.datalen >= FDIO_CHUNK_SIZE) \/ (m.hcount >= FDIO_MAX_HANDLES)
    THEN FALSE
    ELSE TRUE

is_message_valid(m) ==
    IF (m.datalen > FDIO_CHUNK_SIZE) \/ (m.hcount > FDIO_MAX_HANDLES)
    THEN FALSE
    ELSE TRUE

\* is_message_reply_valid that also refuses a reply of exactly one header
is_message_reply_valid_le(m, size) ==
    IF (size <= ZXRIO_HDR_SZ) \/ (m.datalen # (size - ZXRIO_HDR_SZ))
    THEN FALSE
    ELSE is_message_valid(m)

\* size - ZXRIO_HDR_SZ is evaluated only when size >= ZXRIO_HDR_SZ, so the
\* unsigned subtraction does not wrap
is_message_reply_valid(m, size) ==
    IF (size < ZXRIO_HDR_SZ) \/ (m.datalen # (size - ZXRIO_HDR_SZ))
    THEN FALSE
    ELSE is_message_valid(m)

\* discard_handles(handles + from, count): closes handles[from+1 .. from+count]
RECURSIVE discard_handles(_, _, _, _)
discard_handles(k, handles, from, count) ==
    IF count <= 0 THEN k
    ELSE discard_handles(zx_handle_close(k, handles[from + 1]),
                         handles, from + 1, count - 1)

\* memset(&msg, 0, ZXRIO_HDR_SZ): the header holds every field but data
ZeroMsg ==
    [txid |-> 0, op |-> 0, datalen |-> 0, arg |-> 0, off |-> 0,
     hcount |-> 0, handle |-> NoHandles]

(***************************************************************************)
(* The channel transport, as the code relies on it.  An exchange e is what *)
(* the transport and the peer do with one zx_channel_call:                 *)
(*   e.r      its return value; ZX_ERR_CALL_FAILED is the read phase       *)
(*            failing, any other negative value the write phase failing    *)
(*   e.rs     the read status slot, written when the read phase fails      *)
(*   e.dsize  bytes of the reply, e.nh handles delivered with it           *)
(*   e.op, e.arg, e.datalen, e.off   header fields of the reply            *)
(* A failed write leaves the outbound handles with the caller; once the    *)
(* write phase is over they belong to the transport.  The reply's bytes    *)
(* land in the message, its handles in msg.handle[0..nh-1], and the count  *)
(* of delivered handles in msg.hcount.                                     *)
(***************************************************************************)
OutboundHandles(m) ==
    {m.handle[i] : i \in 1..(IF m.hcount > 4 THEN 4 ELSE m.hcount)}

DeliveredHandles(e) == [i \in 1..4 |-> IF i <= e.nh THEN ReplyHandle(i) ELSE 0]

ReplyMsg(m, e) ==
    IF e.dsize >= ZXRIO_HDR_SZ
    THEN [txid |-> m.txid, op |-> e.op, datalen |-> e.datalen, arg |-> e.arg,
          off |-> e.off, hcount |-> e.nh, handle |-> DeliveredHandles(e)]
    ELSE [m EXCEPT !.hcount = e.nh,
                   !.handle = [i \in 1..4 |-> IF i <= e.nh THEN ReplyHandle(i)
                                              ELSE m.handle[i]]]

zx_channel_call(k, h, m, e) ==
    LET k1 == Syscall(k, "call", h, m.hcount)
    IN  IF e.r = ZX_OK
        THEN [k |-> [k1 EXCEPT !.live = (@ \ OutboundHandles(m))
                                        \cup {ReplyHandle(i) : i \in 1..e.nh}],
              msg |-> ReplyMsg(m, e)]
        ELSE IF e.r = ZX_ERR_CALL_FAILED
        THEN [k |-> [k1 EXCEPT !.live = @ \ OutboundHandles(m)], msg |-> m]
        ELSE [k |-> k1, msg |-> m]

\* zx_channel_write(h, msg, handles, n) with result s: the handles go with the
\* message when it succeeds and stay with the caller when it fails
zx_channel_write(k, h, handles, n, s) ==
    LET k1 == Syscall(k, "write", h, n)
    IN  IF s = ZX_OK
        THEN [k1 EXCEPT !.live = @ \ {handles[i] : i \in 1..n}]
        ELSE k1

(***************************************************************************)
(* Transaction engine.                                                     *)
(***************************************************************************)
\* A 32-bit word is held as the signed integer with the same bits, so that
\* 0xFFFFFFFF is -1 and adding 1 to it gives 0; the one place where the word's
\* addition differs from integer addition is 0x7FFFFFFF + 1 = 0x80000000.
\* atomic_fetch_add that stays at 0x7FFFFFFF
atomic_fetch_add_saturating(x) ==
    [old |-> x, new |-> IF x = 2147483647 THEN x ELSE x + 1]

\* a fetch-and-add whose store is lost, as when another thread's update
\* overwrites it
atomic_fetch_add_lost(x) ==
    [old |-> x, new |-> x]

\* atomic_fetch_add(&rio->txid, 1): the value before, and the value left
atomic_fetch_add(x) ==
    [old |-> x, new |-> IF x = 2147483647 THEN -2147483647 - 1 ELSE x + 1]

\* fail_discard_handles without the discard_handles call
fail_discard_handles_leak(r, m, txid, k) ==
    [r |-> r, msg |-> [m EXCEPT !.hcount = 0], txid |-> txid, k |-> k]

\* fail_discard_handles:
fail_discard_handles(r, m, txid, k) ==
    [r |-> r, msg |-> [m EXCEPT !.hcount = 0], txid |-> txid,
     k |-> discard_handles(k, m.handle, 0, m.hcount)]

\* zxrio_txn that looks at the reply's arg before its framing and op
zxrio_txn_arg_first(c, m, k, e) ==
    IF ~is_message_valid(m)
    THEN [r |-> ZX_ERR_INVALID_ARGS, msg |-> m, txid |-> c.txid, k |-> k]
    ELSE
    LET m1   == [m EXCEPT !.txid = atomic_fetch_add(c.txid).old]
        txid == atomic_fetch_add(c.txid).new
        x    == zx_channel_call(k, c.h, m1, e)
    IN  IF e.r < 0
        THEN IF e.r = ZX_ERR_CALL_FAILED
             THEN [r |-> e.rs, msg |-> [x.msg EXCEPT !.hcount = 0],
                   txid |-> txid, k |-> x.k]
             ELSE fail_discard_handles(e.r, x.msg, txid, x.k)
        ELSE IF x.msg.arg < 0
        THEN fail_discard_handles(x.msg.arg, x.msg, txid, x.k)
        ELSE IF ~is_message_reply_valid(x.msg, e.dsize)
                \/ ZXRIO_OP(x.msg.op) # ZXRIO_STATUS
        THEN fail_discard_handles(ZX_ERR_IO, x.msg, txid, x.k)
        ELSE [r |-> x.msg.arg, msg |-> x.msg, txid |-> txid, k |-> x.k]

\* zxrio_txn that takes a transaction id before it validates the message
zxrio_txn_stamps_first(c, m, k, e) ==
    LET m1   == [m EXCEPT !.txid = atomic_fetch_add(c.txid).old]
        txid == atomic_fetch_add(c.txid).new
        x    == zx_channel_call(k, c.h, m1, e)
    IN  IF ~is_message_valid(m)
        THEN [r |-> ZX_ERR_INVALID_ARGS, msg |-> m1, txid |-> txid, k |-> k]
        ELSE IF e.r < 0
        THEN IF e.r = ZX_ERR_CALL_FAILED
             THEN [r |-> e.rs, msg |-> [x.msg EXCEPT !.hcount = 0],
                   txid |-> txid, k |-> x.k]
             ELSE fail_discard_handles(e.r, x.msg, txid, x.k)
        ELSE IF ~is_message_reply_valid(x.msg, e.dsize)
                \/ ZXRIO_OP(x.msg.op) # ZXRIO_STATUS
        THEN fail_discard_handles(ZX_ERR_IO, x.msg, txid, x.k)
        ELSE IF x.msg.arg < 0
        THEN fail_discard_handles(x.msg.arg, x.msg, txid, x.k)
        ELSE [r |-> x.msg.arg, msg |-> x.msg, txid |-> txid, k |-> x.k]

\* zxrio_txn that treats every failure of the channel call as a write failure
zxrio_txn_one_phase(c, m, k, e) ==
    IF ~is_message_valid(m)
    THEN [r |-> ZX_ERR_INVALID_ARGS, msg |-> m, txid |-> c.txid, k |-> k]
    ELSE
    LET m1   == [m EXCEPT !.txid = atomic_fetch_add(c.txid).old]
        txid == atomic_fetch_add(c.txid).new
        x    == zx_channel_call(k, c.h, m1, e)
    IN  IF e.r < 0
        THEN fail_discard_handles(e.r, x.msg, txid, x.k)
        ELSE IF ~is_message_reply_valid(x.msg, e.dsize)
                \/ ZXRIO_OP(x.msg.op) # ZXRIO_STATUS
        THEN fail_discard_handles(ZX_ERR_IO, x.msg, txid, x.k)
        ELSE IF x.msg.arg < 0
        THEN fail_discard_handles(x.msg.arg, x.msg, txid, x.k)
        ELSE [r |-> x.msg.arg, msg |-> x.msg, txid |-> txid, k |-> x.k]

\* zxrio_txn(rio, msg): c is the connection, e the exchange the transport makes
zxrio_txn(c, m, k, e) ==
    IF ~is_message_valid(m)
    THEN [r |-> ZX_ERR_INVALID_ARGS, msg |-> m, txid |-> c.txid, k |-> k]
    ELSE
    LET m1   == [m EXCEPT !.txid = atomic_fetch_add(c.txid).old]
        txid == atomic_fetch_add(c.txid).new
        x    == zx_channel_call(k, c.h, m1, e)
    IN  IF e.r < 0
        THEN IF e.r = ZX_ERR_CALL_FAILED
             THEN [r |-> e.rs, msg |-> [x.msg EXCEPT !.hcount = 0],
                   txid |-> txid, k |-> x.k]
             ELSE fail_discard_handles(e.r, x.msg, txid, x.k)
        ELSE IF ~is_message_reply_valid(x.msg, e.dsize)
                \/ ZXRIO_OP(x.msg.op) # ZXRIO_STATUS
        THEN fail_discard_handles(ZX_ERR_IO, x.msg, txid, x.k)
        ELSE IF x.msg.arg < 0
        THEN fail_discard_handles(x.msg.arg, x.msg, txid, x.k)
        ELSE [r |-> x.msg.arg, msg |-> x.msg, txid |-> txid, k |-> x.k]

(***************************************************************************)
(* Exchanges.                                                              *)
(***************************************************************************)
WriteFail(s) ==
    [r |-> s, rs |-> ZX_ERR_INTERNAL, dsize |-> 0, nh |-> 0, op |-> 0,
     arg |-> 0, datalen |-> 0, off |-> 0]

ReadFail(s) ==
    [r |-> ZX_ERR_CALL_FAILED, rs |-> s, dsize |-> 0, nh |-> 0, op |-> 0,
     arg |-> 0, datalen |-> 0, off |-> 0]

Reply(op, arg, datalen, dsize, nh) ==
    [r |-> ZX_OK, rs |-> ZX_OK, dsize |-> dsize, nh |-> nh, op |-> op,
     arg |-> arg, datalen |-> datalen, off |-> 0]

\* a well-formed status reply
StatusReply(arg, datalen, nh) ==
    Reply(ZXRIO_STATUS, arg, datalen, ZXRIO_HDR_SZ + datalen, nh)

\* a channel call on a handle that is not open fails in its write phase
Feasible(c, l, e) == c.h \notin l => e = WriteFail(ZX_ERR_BAD_HANDLE)

\* the ledger after an operation: the connection's closes are added up
Closes(l) == [h \in RioHandles |-> closes[h] + CloseCount(l, h)]

\* handles held at entry: the connection's, and those the caller passes in
Entry(given) == Kernel((live \cap RioHandles) \cup given)

(***************************************************************************)
(* Bounds of the model.                                                    *)
(***************************************************************************)
\* transactions run on one connection object
MaxTxid == 3
\* largest request of a chunked read or write, in chunks
MaxChunks == 2

(***************************************************************************)
(* The connection object.                                                  *)
(***************************************************************************)
\* fdio_remote_create(h, e); ok is whether calloc returned memory
fdio_remote_create(k, h, e, ok) ==
    IF ~ok
    THEN [rio |-> [alloc |-> FALSE, h |-> 0, h2 |-> 0, txid |-> 0],
          k |-> zx_handle_close(zx_handle_close(k, h), e)]
    ELSE [rio |-> [alloc |-> TRUE, h |-> h, h2 |-> e, txid |-> 1], k |-> k]

Init ==
    \E e \in {0, 2} :
        /\ rio = fdio_remote_create(Kernel({1, e} \ {0}), 1, e, TRUE).rio
        /\ live = {1, e} \ {0}
        /\ call = "fdio_remote_create"
        /\ args = [h |-> 1, e |-> e, ok |-> TRUE]
        /\ ret = 1
        /\ msg = ZeroMsg
        /\ out = <<>>
        /\ log = <<>>
        /\ closes = [h \in RioHandles |-> 0]

\* a new connection object takes the place of one that is closed or was never
\* allocated; its handles are fresh, so the ledger starts again
FdioRemoteCreate ==
    /\ ~rio.alloc \/ rio.h = 0
    /\ \E e \in {0, 2}, ok \in BOOLEAN :
        LET c == fdio_remote_create(Kernel({1, e} \ {0}), 1, e, ok)
        IN  /\ rio' = c.rio
            /\ live' = c.k.live
            /\ call' = "fdio_remote_create"
            /\ args' = [h |-> 1, e |-> e, ok |-> ok]
            /\ ret' = IF ok THEN 1 ELSE 0
            /\ msg' = ZeroMsg
            /\ out' = <<>>
            /\ log' = c.k.log
            /\ closes' = [h \in RioHandles |-> CloseCount(c.k.log, h)]

(***************************************************************************)
(* zxrio_txn called on the connection with a request message.              *)
(***************************************************************************)
\* a request carrying hcount handles of the caller
OutMsg(op, datalen, hcount) ==
    [ZeroMsg EXCEPT !.op = op, !.datalen = datalen, !.hcount = hcount,
                    !.handle = [i \in 1..4 |-> IF i <= hcount THEN OutHandle(i)
                                               ELSE 0]]

TxnMsgs ==
    {OutMsg(ZXRIO_IOCTL, dl, hc) : dl \in {0, FDIO_CHUNK_SIZE + 1},
                                   hc \in {0, 2, FDIO_MAX_HANDLES + 1}}

\* the exchanges tried: both phases failing, well-formed status replies, replies
\* with another op, with flag bits above the op mask, and with a size that does
\* not match the payload length
TxnEnvs ==
    {WriteFail(ZX_ERR_BAD_HANDLE), WriteFail(ZX_ERR_PEER_CLOSED),
     ReadFail(ZX_ERR_PEER_CLOSED), ReadFail(ZX_ERR_BUFFER_TOO_SMALL)}
    \cup {StatusReply(arg, 8, nh) :
            arg \in {ZX_ERR_NOT_SUPPORTED, 0, 7}, nh \in 0..FDIO_MAX_HANDLES}
    \cup {Reply(op, arg, 8, ZXRIO_HDR_SZ + 8, nh) :
            op \in {ZXRIO_CLOSE, 1024 + ZXRIO_STATUS},
            arg \in {ZX_ERR_NOT_SUPPORTED, 7}, nh \in {0, 2}}
    \cup {Reply(ZXRIO_STATUS, arg, 8, ds, nh) :
            ds \in {4, ZXRIO_HDR_SZ, ZXRIO_HDR_SZ + 16},
            arg \in {ZX_ERR_NOT_SUPPORTED, 7}, nh \in {0, 2}}

ZxrioTxn ==
    /\ rio.alloc
    /\ rio.txid < MaxTxid
    /\ \E m \in TxnMsgs, e \in TxnEnvs :
        /\ Feasible(rio, live, e)
        /\ LET t == zxrio_txn(rio, m, Entry(OutboundHandles(m)), e)
           IN  /\ rio' = [rio EXCEPT !.txid = t.txid]
               /\ live' = t.k.live
               /\ call' = "zxrio_txn"
               /\ args' = [msg |-> m, env |-> e]
               /\ ret' = t.r
               /\ msg' = t.msg
               /\ out' = <<>>
               /\ log' = t.k.log
               /\ closes' = Closes(t.k.log)

(***************************************************************************)
(* zxrio_close.                                                            *)
(***************************************************************************)
\* zxrio_close that closes rio->h and rio->h2 without zeroing the fields
zxrio_close_keeps_fields(c, k, e) ==
    LET m == [ZeroMsg EXCEPT !.op = ZXRIO_CLOSE]
        t == zxrio_txn(c, m, k, e)
        k1 == IF t.r >= 0
              THEN discard_handles(t.k, t.msg.handle, 0, t.msg.hcount)
              ELSE t.k
        k2 == zx_handle_close(k1, c.h)
    IN  [r |-> t.r, msg |-> t.msg,
         rio |-> [c EXCEPT !.txid = t.txid],
         k |-> IF c.h2 > 0 THEN zx_handle_close(k2, c.h2) ELSE k2]

\* zxrio_close(io)
zxrio_close(c, k, e) ==
    LET m == [ZeroMsg EXCEPT !.op = ZXRIO_CLOSE]
        t == zxrio_txn(c, m, k, e)
        k1 == IF t.r >= 0
              THEN discard_handles(t.k, t.msg.handle, 0, t.msg.hcount)
              ELSE t.k
        c1 == [c EXCEPT !.txid = t.txid, !.h = 0]
        k2 == zx_handle_close(k1, c.h)
    IN  IF c1.h2 > 0
        THEN [r |-> t.r, msg |-> t.msg, rio |-> [c1 EXCEPT !.h2 = 0],
              k |-> zx_handle_close(k2, c1.h2)]
        ELSE [r |-> t.r, msg |-> t.msg, rio |-> c1, k |-> k2]

CloseEnvs ==
    {WriteFail(ZX_ERR_BAD_HANDLE), WriteFail(ZX_ERR_PEER_CLOSED),
     ReadFail(ZX_ERR_PEER_CLOSED),
     StatusReply(0, 0, 0), StatusReply(0, 0, 2),
     StatusReply(ZX_ERR_NOT_SUPPORTED, 0, 1),
     Reply(ZXRIO_CLOSE, 0, 0, ZXRIO_HDR_SZ, 1)}

ZxrioClose ==
    /\ rio.alloc
    /\ rio.txid < MaxTxid
    /\ \E e \in CloseEnvs :
        /\ Feasible(rio, live, e)
        /\ LET t == zxrio_close(rio, Entry({}), e)
           IN  /\ rio' = t.rio
               /\ live' = t.k.live
               /\ call' = "zxrio_close"
               /\ args' = [h |-> rio.h, h2 |-> rio.h2, env |-> e]
               /\ ret' = t.r
               /\ msg' = t.msg
               /\ out' = <<>>
               /\ log' = t.k.log
               /\ closes' = Closes(t.k.log)

\* a connection's life: created, used for transactions, closed (any number of
\* times), replaced by a new one
NextTxn == ZxrioTxn \/ ZxrioClose \/ FdioRemoteCreate

SpecTxn == Init /\ [][NextTxn]_vars

(***************************************************************************)
(* Failure modes of an exchange, for a request that passed validation.     *)
(***************************************************************************)
TxnWriteFailed(e) == e.r < 0 /\ e.r # ZX_ERR_CALL_FAILED
TxnReadFailed(e) == e.r = ZX_ERR_CALL_FAILED
TxnStatusNegative(e) == e.r = ZX_OK /\ e.arg < 0
TxnOpMismatch(e) == e.r = ZX_OK /\ ZXRIO_OP(e.op) # ZXRIO_STATUS
TxnSizeMismatch(e) ==
    e.r = ZX_OK /\ (e.dsize < ZXRIO_HDR_SZ \/ e.datalen # e.dsize - ZXRIO_HDR_SZ)
TxnFailed(e) ==
    \/ TxnWriteFailed(e) \/ TxnReadFailed(e) \/ TxnStatusNegative(e)
    \/ TxnOpMismatch(e) \/ TxnSizeMismatch(e)

\* the handles one call of zxrio_txn deals with
TxnHandles == {OutHandle(i) : i \in 1..4} \cup {ReplyHandle(i) : i \in 1..4}

\* C1: zxrio_txn never leaks handles.  For a request that passed validation,
\* in each failure mode (write phase failed, read phase failed, negative
\* status, reply op not ZXRIO_STATUS, size mismatch) msg.hcount is 0 at
\* return, no handle of the request or of the reply is left open, each handle
\* still held locally (write phase) or received (reply) was closed exactly
\* once and none twice; handles are left in the message only on success,
\* where they are the handles delivered with the reply, all open.
C1_TxnNeverLeaks ==
    (call = "zxrio_txn" /\ is_message_valid(args.msg)) =>
        LET e == args.env
            sent == OutboundHandles(args.msg)
            got == {ReplyHandle(i) : i \in 1..e.nh}
        IN  /\ TxnFailed(e) =>
                /\ msg.hcount = 0
                /\ live \cap TxnHandles = {}
                /\ \A h \in TxnHandles : CloseCount(log, h) <= 1
                /\ TxnWriteFailed(e) => \A h \in sent : CloseCount(log, h) = 1
                /\ TxnReadFailed(e) => KindCount(log, "close") = 0
                /\ e.r = ZX_OK =>
                    /\ \A h \in got : CloseCount(log, h) = 1
                    /\ \A h \in sent : CloseCount(log, h) = 0
            /\ ~TxnFailed(e) =>
                /\ ret >= 0
                /\ msg.hcount = e.nh
                /\ live \cap TxnHandles = got
                /\ KindCount(log, "close") = 0
            /\ msg.hcount > 0 => ~TxnFailed(e)

\* a negative status arrives with three handles after two were sent
C1_Witness ==
    /\ call = "zxrio_txn"
    /\ args.msg.hcount = 2
    /\ TxnStatusNegative(args.env)
    /\ ~TxnSizeMismatch(args.env) /\ ~TxnOpMismatch(args.env)
    /\ args.env.nh = 3
    /\ ret = ZX_ERR_NOT_SUPPORTED
    /\ msg.hcount = 0
    /\ CloseCount(log, ReplyHandle(3)) = 1

(***************************************************************************)
(* zxrio_ioctl.  Buffers are sequences of 32-bit words: OldWord(i) is what *)
(* the caller's output buffer held in word i before the call, DataWord(i)  *)
(* word i of the reply's payload; a handle slot holds a handle value or 0. *)
(***************************************************************************)
IOCTL_KIND_DEFAULT == 0
IOCTL_KIND_GET_HANDLE == 1
IOCTL_KIND_GET_TWO_HANDLES == 2
IOCTL_KIND_SET_HANDLE == 3
IOCTL_KIND_GET_THREE_HANDLES == 4
IOCTL_KIND_SET_TWO_HANDLES == 5

\* IOCTL(kind, family, number) and IOCTL_KIND(n) = ((n >> 20) & 0xF)
IOCTL(kind, family, number) ==
    (kind % 16) * 2^20 + (family % 256) * 256 + (number % 256)
IOCTL_KIND(n) == (n \div 2^20) % 16

SizeofHandle == 4

OldWord(i) == 100 + i
DataWord(i) == 200 + i

OldBuf(len) == [i \in 1..(len \div 4) |-> OldWord(i)]

\* memcpy(dst, src, n) and memset(dst, 0, n), n in bytes, on word buffers
MemcpyWords(dst, src, n) ==
    [i \in 1..Len(dst) |-> IF i <= n \div 4 THEN src[i] ELSE dst[i]]
MemsetZero(dst, n) ==
    [i \in 1..Len(dst) |-> IF i <= n \div 4 THEN 0 ELSE dst[i]]

\* msg.data of a reply
MsgData(m) == [i \in 1..(m.datalen \div 4) |-> DataWord(i)]

\* the get-handles demultiplexing of the reply, for a kind that takes n handles
\* (lines 338-346, 347-355): memcpy of the handles received, then the memset
IoctlGetHandles(buf, m, n) ==
    LET handles == IF m.hcount > n THEN n ELSE m.hcount
        b1 == IF handles # 0
              THEN MemcpyWords(buf, m.handle, handles * SizeofHandle)
              ELSE buf
        b2 == IF handles < n
              THEN MemsetZero(b1, (n - handles) * SizeofHandle)
              ELSE b1
    IN  [handles |-> handles, buf |-> b2]

\* lines 330-337
IoctlGetOneHandle(buf, m) ==
    LET handles == IF m.hcount > 0 THEN 1 ELSE 0
    IN  [handles |-> handles,
         buf |-> IF handles # 0
                 THEN MemcpyWords(buf, m.handle, SizeofHandle)
                 ELSE MemsetZero(buf, SizeofHandle)]

IoctlRefused(c, k) ==
    [r |-> ZX_ERR_INVALID_ARGS, buf |-> <<>>, msg |-> ZeroMsg, txid |-> c.txid,
     k |-> k]

\* zxrio_ioctl(io, op, in_buf, in_len, out_buf, out_len); the caller's in_buf
\* starts with the handles OutHandle(1), OutHandle(2) for the set-handle kinds
zxrio_ioctl(c, k, op, in_len, out_len, e) ==
    LET kind == IOCTL_KIND(op)
        m0 == [ZeroMsg EXCEPT !.op = ZXRIO_IOCTL, !.datalen = in_len,
                              !.arg = out_len, !.off = op]
        m1 == IF kind = IOCTL_KIND_SET_HANDLE
              THEN [m0 EXCEPT !.op = ZXRIO_IOCTL_1H, !.hcount = 1,
                              !.handle = <<OutHandle(1), 0, 0, 0>>]
              ELSE IF kind = IOCTL_KIND_SET_TWO_HANDLES
              THEN [m0 EXCEPT !.op = ZXRIO_IOCTL_2H, !.hcount = 2,
                              !.handle = <<OutHandle(1), OutHandle(2), 0, 0>>]
              ELSE m0
    IN  IF in_len > FDIO_IOCTL_MAX_INPUT \/ out_len > FDIO_CHUNK_SIZE
        THEN IoctlRefused(c, k)
        ELSE IF \/ kind = IOCTL_KIND_GET_HANDLE /\ out_len < SizeofHandle
                \/ kind = IOCTL_KIND_GET_TWO_HANDLES /\ out_len < 2 * SizeofHandle
                \/ kind = IOCTL_KIND_GET_THREE_HANDLES /\ out_len < 3 * SizeofHandle
                \/ kind = IOCTL_KIND_SET_HANDLE /\ in_len < SizeofHandle
                \/ kind = IOCTL_KIND_SET_TWO_HANDLES /\ in_len < 2 * SizeofHandle
        THEN IoctlRefused(c, k)
        ELSE
        LET t == zxrio_txn(c, m1, k, e)
            copy_len == IF t.msg.datalen > out_len THEN out_len ELSE t.msg.datalen
            b0 == MemcpyWords(OldBuf(out_len), MsgData(t.msg), copy_len)
            g == IF kind = IOCTL_KIND_GET_HANDLE
                 THEN IoctlGetOneHandle(b0, t.msg)
                 ELSE IF kind = IOCTL_KIND_GET_TWO_HANDLES
                 THEN IoctlGetHandles(b0, t.msg, 2)
                 ELSE IF kind = IOCTL_KIND_GET_THREE_HANDLES
                 THEN IoctlGetHandles(b0, t.msg, 3)
                 ELSE [handles |-> 0, buf |-> b0]
        IN  IF t.r < 0
            THEN [r |-> t.r, buf |-> OldBuf(out_len), msg |-> t.msg,
                  txid |-> t.txid, k |-> t.k]
            ELSE [r |-> t.r, buf |-> g.buf, msg |-> t.msg, txid |-> t.txid,
                  k |-> discard_handles(t.k, t.msg.handle, g.handles,
                                        t.msg.hcount - g.handles)]

IoctlKinds ==
    {IOCTL_KIND_DEFAULT, IOCTL_KIND_GET_HANDLE, IOCTL_KIND_GET_TWO_HANDLES,
     IOCTL_KIND_SET_HANDLE, IOCTL_KIND_GET_THREE_HANDLES,
     IOCTL_KIND_SET_TWO_HANDLES}

\* every kind with an input of two words and an output of one, two or four
\* words; inputs too short for the set-handle kinds; lengths over the limits
IoctlArgs ==
    {[kind |-> kd, in_len |-> 8, out_len |-> ol] :
        kd \in IoctlKinds, ol \in {4, 8, 16}}
    \cup {[kind |-> IOCTL_KIND_SET_HANDLE, in_len |-> 0, out_len |-> 8],
          [kind |-> IOCTL_KIND_SET_TWO_HANDLES, in_len |-> 4, out_len |-> 8],
          [kind |-> IOCTL_KIND_DEFAULT, in_len |-> FDIO_IOCTL_MAX_INPUT + 4,
           out_len |-> 8],
          [kind |-> IOCTL_KIND_DEFAULT, in_len |-> 0,
           out_len |-> FDIO_CHUNK_SIZE + 4]}

IoctlEnvs ==
    {WriteFail(ZX_ERR_PEER_CLOSED), ReadFail(ZX_ERR_PEER_CLOSED),
     StatusReply(ZX_ERR_NOT_SUPPORTED, 0, 1)}
    \cup {StatusReply(0, dl, nh) : dl \in {0, 12}, nh \in 0..FDIO_MAX_HANDLES}

ZxrioIoctl ==
    /\ rio.alloc
    /\ rio.txid < MaxTxid
    /\ \E a \in IoctlArgs, e \in IoctlEnvs :
        /\ Feasible(rio, live, e)
        /\ LET op == IOCTL(a.kind, 1, 2)
               t == zxrio_ioctl(rio, Entry({OutHandle(1), OutHandle(2)}), op,
                                a.in_len, a.out_len, e)
           IN  /\ rio' = [rio EXCEPT !.txid = t.txid]
               /\ live' = t.k.live
               /\ call' = "zxrio_ioctl"
               /\ args' = [op |-> op, in_len |-> a.in_len, out_len |-> a.out_len,
                           env |-> e]
               /\ ret' = t.r
               /\ msg' = t.msg
               /\ out' = t.buf
               /\ log' = t.k.log
               /\ closes' = Closes(t.k.log)

NextIoctl == ZxrioIoctl

SpecIoctl == Init /\ [][NextIoctl]_vars

\* C2: zxrio_ioctl with a get-two-handles op whose successful reply carries
\* exactly one handle does not fail, puts that handle in the first handle slot
\* of the output buffer and zero-fills the second slot.
C2_GetTwoHandlesOneSupplied ==
    (/\ call = "zxrio_ioctl"
     /\ IOCTL_KIND(args.op) = IOCTL_KIND_GET_TWO_HANDLES
     /\ args.out_len >= 2 * SizeofHandle
     /\ ~TxnFailed(args.env)
     /\ args.env.nh = 1) =>
        /\ ret >= 0
        /\ out[1] = ReplyHandle(1)
        /\ out[2] = 0

\* C3: zxrio_close is idempotent at the local-state level.  After any call,
\* whether its close transaction succeeded or not, rio->h and rio->h2 are 0
\* and neither connection handle is open; over any number of calls on the
\* connection each of its real handles has been closed exactly once, and a
\* call that finds the fields already zeroed closes no handle but 0.
C3_CloseIdempotent ==
    (call = "zxrio_close") =>
        /\ rio.h = 0 /\ rio.h2 = 0
        /\ live \cap RioHandles = {}
        /\ closes[1] = 1
        /\ closes[2] <= 1
        /\ args.h = 0 =>
            \A i \in 1..Len(log) : log[i][1] = "close" => log[i][2] = 0

\* the second zxrio_close of a connection that had both handles
C3_Witness ==
    /\ call = "zxrio_close"
    /\ args.h = 0 /\ args.h2 = 0
    /\ closes[1] = 1 /\ closes[2] = 1
    /\ CloseCount(log, 0) = 1
    /\ ret = ZX_ERR_BAD_HANDLE

(***************************************************************************)
(* Chunked read and write.  The peer's behaviour over one call is a        *)
(* script [nfull, last]: it transfers the full amount asked for in the     *)
(* first nfull transactions and answers every later one in the way `last`  *)
(* names.  The loops stop at the first transaction that is not a full      *)
(* transfer, so such scripts cover every run of the loops.                 *)
(***************************************************************************)
RwKinds == {"full", "short", "over", "nodata", "fail", "hup"}

\* the exchange of transaction i, which asks for xfer bytes
RwEnv(script, i, xfer, isRead) ==
    LET kind == IF i <= script.nfull THEN "full" ELSE script.last
    IN  CASE kind = "full"   -> StatusReply(xfer, IF isRead THEN xfer ELSE 0, 0)
          [] kind = "short"  -> StatusReply(xfer - 1, IF isRead THEN xfer - 1 ELSE 0, 1)
          [] kind = "over"   -> StatusReply(xfer + 1, IF isRead THEN xfer ELSE 0, 0)
          [] kind = "nodata" -> StatusReply(xfer, 0, 0)
          [] kind = "fail"   -> StatusReply(ZX_ERR_NOT_SUPPORTED, 0, 1)
          [] kind = "hup"    -> WriteFail(ZX_ERR_PEER_CLOSED)

\* xfer = len without the cap at FDIO_CHUNK_SIZE
ChunkSize_uncapped(len) == len

\* xfer = (len > FDIO_CHUNK_SIZE) ? FDIO_CHUNK_SIZE : len
ChunkSize(len) == IF len > FDIO_CHUNK_SIZE THEN FDIO_CHUNK_SIZE ELSE len

\* return r, whatever was transferred before
RwResult_last(count, r) == r

\* return count ? count : r
RwResult(count, r) == IF count # 0 THEN count ELSE r

\* the locals of the loops at entry
RwLocals(c, k, len, offset) ==
    [len |-> len, offset |-> offset, count |-> 0, r |-> 0, k |-> k,
     txid |-> c.txid, msg |-> ZeroMsg, reqs |-> <<>>]

\* the while loop of write_common without offset += r
RECURSIVE write_loop_keeps_offset(_, _, _, _)
write_loop_keeps_offset(op, c, st, script) ==
    IF st.len > 0
    THEN
    LET xfer == ChunkSize(st.len)
        m == [ZeroMsg EXCEPT !.op = op, !.datalen = xfer,
                             !.off = IF op = ZXRIO_WRITE_AT THEN st.offset ELSE 0]
        e == RwEnv(script, Len(st.reqs) + 1, xfer, FALSE)
        t == zxrio_txn([c EXCEPT !.txid = st.txid], m, st.k, e)
        s1 == [st EXCEPT !.txid = t.txid, !.k = t.k, !.msg = t.msg, !.r = t.r,
                         !.reqs = Append(@, [xfer |-> xfer, off |-> m.off])]
        s2 == [s1 EXCEPT !.k = discard_handles(t.k, t.msg.handle, 0, t.msg.hcount)]
        s3 == [s2 EXCEPT !.count = @ + t.r, !.len = @ - t.r]
    IN  IF t.r < 0 THEN s1
        ELSE IF t.r > xfer THEN [s2 EXCEPT !.r = ZX_ERR_IO]
        ELSE IF t.r < xfer THEN s3
        ELSE write_loop_keeps_offset(op, c, s3, script)
    ELSE st

\* the while loop of write_common; st.reqs lists what each transaction asked
RECURSIVE write_loop(_, _, _, _)
write_loop(op, c, st, script) ==
    IF st.len > 0
    THEN
    LET xfer == ChunkSize(st.len)
        m == [ZeroMsg EXCEPT !.op = op, !.datalen = xfer,
                             !.off = IF op = ZXRIO_WRITE_AT THEN st.offset ELSE 0]
        e == RwEnv(script, Len(st.reqs) + 1, xfer, FALSE)
        t == zxrio_txn([c EXCEPT !.txid = st.txid], m, st.k, e)
        s1 == [st EXCEPT !.txid = t.txid, !.k = t.k, !.msg = t.msg, !.r = t.r,
                         !.reqs = Append(@, [xfer |-> xfer, off |-> m.off])]
        s2 == [s1 EXCEPT !.k = discard_handles(t.k, t.msg.handle, 0, t.msg.hcount)]
        s3 == [s2 EXCEPT !.count = @ + t.r, !.len = @ - t.r,
                         !.offset = IF op = ZXRIO_WRITE_AT THEN @ + t.r ELSE @]
    IN  IF t.r < 0 THEN s1
        ELSE IF t.r > xfer THEN [s2 EXCEPT !.r = ZX_ERR_IO]
        ELSE IF t.r < xfer THEN s3
        ELSE write_loop(op, c, s3, script)
    ELSE st

\* write_common(op, io, data, len, offset)
write_common(op, c, k, len, offset, script) ==
    LET st == write_loop(op, c, RwLocals(c, k, len, offset), script)
    IN  [r |-> RwResult(st.count, st.r), st |-> st]

\* the while loop of read_common
RECURSIVE read_loop(_, _, _, _)
read_loop(op, c, st, script) ==
    IF st.len > 0
    THEN
    LET xfer == ChunkSize(st.len)
        m == [ZeroMsg EXCEPT !.op = op, !.arg = xfer,
                             !.off = IF op = ZXRIO_READ_AT THEN st.offset ELSE 0]
        e == RwEnv(script, Len(st.reqs) + 1, xfer, TRUE)
        t == zxrio_txn([c EXCEPT !.txid = st.txid], m, st.k, e)
        s1 == [st EXCEPT !.txid = t.txid, !.k = t.k, !.msg = t.msg, !.r = t.r,
                         !.reqs = Append(@, [xfer |-> xfer, off |-> m.off])]
        s2 == [s1 EXCEPT !.k = discard_handles(t.k, t.msg.handle, 0, t.msg.hcount)]
        s3 == [s2 EXCEPT !.count = @ + t.r, !.len = @ - t.r,
                         !.offset = IF op = ZXRIO_READ_AT THEN @ + t.r ELSE @]
    IN  IF t.r < 0 THEN s1
        ELSE IF (t.r > t.msg.datalen) \/ (t.r > xfer) THEN [s2 EXCEPT !.r = ZX_ERR_IO]
        ELSE IF t.r < xfer THEN s3
        ELSE read_loop(op, c, s3, script)
    ELSE st

\* read_common(op, io, data, len, offset)
read_common(op, c, k, len, offset, script) ==
    LET st == read_loop(op, c, RwLocals(c, k, len, offset), script)
    IN  [r |-> RwResult(st.count, st.r), st |-> st]

zxrio_write(c, k, len, script) == write_common(ZXRIO_WRITE, c, k, len, 0, script)
zxrio_write_at(c, k, len, offset, script) ==
    write_common(ZXRIO_WRITE_AT, c, k, len, offset, script)
zxrio_read(c, k, len, script) == read_common(ZXRIO_READ, c, k, len, 0, script)
zxrio_read_at(c, k, len, offset, script) ==
    read_common(ZXRIO_READ_AT, c, k, len, offset, script)

\* request sizes: none, one byte, whole chunks, whole chunks and one byte
RwLens ==
    {0, 1} \cup {n * FDIO_CHUNK_SIZE : n \in 1..MaxChunks}
           \cup {n * FDIO_CHUNK_SIZE + 1 : n \in 1..(MaxChunks - 1)}

RwScripts == [nfull : 0..MaxChunks, last : RwKinds]

RwOffsets == {0, 4096}

\* what every read and write action does with the result t of the call
RwDone(name, op, len, offset, script, t) ==
    /\ rio' = [rio EXCEPT !.txid = t.st.txid]
    /\ live' = t.st.k.live
    /\ call' = name
    /\ args' = [op |-> op, len |-> len, offset |-> offset, script |-> script]
    /\ ret' = t.r
    /\ msg' = t.st.msg
    /\ out' = t.st.reqs
    /\ log' = t.st.k.log
    /\ closes' = Closes(t.st.k.log)

RwReady == rio.alloc /\ rio.txid < MaxTxid /\ rio.h \in live

ZxrioWrite ==
    /\ RwReady
    /\ \E len \in RwLens, script \in RwScripts :
        RwDone("zxrio_write", ZXRIO_WRITE, len, 0, script,
               zxrio_write(rio, Entry({}), len, script))

ZxrioWriteAt ==
    /\ RwReady
    /\ \E len \in RwLens, offset \in RwOffsets, script \in RwScripts :
        RwDone("zxrio_write_at", ZXRIO_WRITE_AT, len, offset, script,
               zxrio_write_at(rio, Entry({}), len, offset, script))

ZxrioRead ==
    /\ RwReady
    /\ \E len \in RwLens, script \in RwScripts :
        RwDone("zxrio_read", ZXRIO_READ, len, 0, script,
               zxrio_read(rio, Entry({}), len, script))

ZxrioReadAt ==
    /\ RwReady
    /\ \E len \in RwLens, offset \in RwOffsets, script \in RwScripts :
        RwDone("zxrio_read_at", ZXRIO_READ_AT, len, offset, script,
               zxrio_read_at(rio, Entry({}), len, offset, script))

NextRw == ZxrioWrite \/ ZxrioWriteAt \/ ZxrioRead \/ ZxrioReadAt

SpecRw == Init /\ [][NextRw]_vars

(***************************************************************************)
(* What a script makes of a request of N bytes.                            *)
(***************************************************************************)
RwCalls == {"zxrio_write", "zxrio_write_at", "zxrio_read", "zxrio_read_at"}

Min(a, b) == IF a < b THEN a ELSE b

\* ceil(N / FDIO_CHUNK_SIZE)
CeilChunks(N) == (N + FDIO_CHUNK_SIZE - 1) \div FDIO_CHUNK_SIZE

\* an answer that transfers all that was asked for ("nodata" does for a write,
\* whose reply carries no payload)
RwFullKind(op, kind) ==
    kind = "full" \/ (kind = "nodata" /\ op \in {ZXRIO_WRITE, ZXRIO_WRITE_AT})

\* every transaction of the call transfers the full amount
RwAllFull(a) ==
    a.script.nfull >= CeilChunks(a.len) \/ RwFullKind(a.op, a.script.last)

\* bytes asked for by the first transaction that is not a full transfer
RwLastXfer(a) == Min(FDIO_CHUNK_SIZE, a.len - a.script.nfull * FDIO_CHUNK_SIZE)

\* bytes transferred over the whole call
RwTransferred(a) ==
    IF RwAllFull(a) THEN a.len
    ELSE a.script.nfull * FDIO_CHUNK_SIZE
         + (IF a.script.last = "short" THEN RwLastXfer(a) - 1 ELSE 0)

\* the failure the first transaction that is not a full transfer ends with
RwFailure(a) ==
    CASE a.script.last = "fail" -> ZX_ERR_NOT_SUPPORTED
      [] a.script.last = "hup" -> ZX_ERR_PEER_CLOSED
      [] OTHER -> ZX_ERR_IO

\* C4: a chunked read or write of N bytes issues exactly ceil(N/C)
\* transactions, C = FDIO_CHUNK_SIZE (none when N = 0), each asking for
\* min(C, remaining) bytes, when every transaction transfers all it asked for;
\* after the first transaction that transfers fewer bytes than asked it issues
\* no other and returns the count accumulated so far.
C4_ChunkedTransactions ==
    (call \in RwCalls) =>
        LET N == args.len
            nfull == args.script.nfull
        IN  /\ \A i \in 1..Len(out) :
                out[i].xfer = Min(FDIO_CHUNK_SIZE, N - (i - 1) * FDIO_CHUNK_SIZE)
            /\ KindCount(log, "call") = Len(out)
            /\ RwAllFull(args) =>
                /\ Len(out) = CeilChunks(N)
                /\ ret = N
            /\ (~RwAllFull(args) /\ args.script.last = "short") =>
                /\ Len(out) = nfull + 1
                /\ ret = nfull * FDIO_CHUNK_SIZE + RwLastXfer(args) - 1

\* a read of one chunk and one byte, all transferred: two transactions, the
\* second asking for the one byte left
C4_Witness ==
    /\ call = "zxrio_read_at"
    /\ args.len = FDIO_CHUNK_SIZE + 1
    /\ RwAllFull(args)
    /\ Len(out) = 2
    /\ out[1].xfer = FDIO_CHUNK_SIZE
    /\ out[2].xfer = 1
    /\ ret = FDIO_CHUNK_SIZE + 1

\* C5: read_common and write_common return the total transferred by earlier
\* chunks whenever it is not zero, even if a later transaction failed or
\* returned a count out of range; they return the failure only when nothing
\* was transferred.
C5_PartialCountOverFailure ==
    (call \in RwCalls) =>
        LET T == RwTransferred(args)
            failing == ~RwAllFull(args) /\ args.script.last # "short"
        IN  /\ T > 0 => ret = T
            /\ (failing /\ T = 0) => ret = RwFailure(args)
            /\ ret < 0 => (failing /\ T = 0)

\* one chunk written, then the peer hangs up: the chunk's size is returned
C5_Witness ==
    /\ call = "zxrio_write"
    /\ args.len = 2 * FDIO_CHUNK_SIZE
    /\ args.script.nfull = 1
    /\ args.script.last = "hup"
    /\ Len(out) = 2
    /\ ret = FDIO_CHUNK_SIZE

(***************************************************************************)
(* Open/connect negotiator.                                                *)
(***************************************************************************)
ZX_ERR_NO_MEMORY == -4
ZX_ERR_NOT_FOUND == -25
ZX_FS_RIGHT_READABLE == 1
ZX_FS_RIGHT_WRITABLE == 2
ZX_FS_FLAG_DESCRIBE == 8388608
FDIO_PROTOCOL_SERVICE == 0
FDIO_PROTOCOL_REMOTE == 1
FDIO_PROTOCOL_PIPE == 2
FDIO_PROTOCOL_VMOFILE == 3
FDIO_PROTOCOL_SOCKET_CONNECTED == 4
FDIO_PROTOCOL_SOCKET == 5
\* sizeof(zxrio_describe_t)
SizeofDescribe == 40

\* flags & bit, for a one-bit mask
FlagSet(flags, bit) == (flags \div bit) % 2 = 1

\* handles of an open: the two ends zx_channel_create makes, the caller's
\* connection handle, the auxiliary handle the peer sends with its description
ChannelEnd(i) == 30 + i
DescribeHandle(i) == 40 + i
LocalEnd == ChannelEnd(1)
RemoteEnd == ChannelEnd(2)
AuxHandle == DescribeHandle(1)
OpenHandles == {LocalEnd, RemoteEnd, AuxHandle, OutHandle(1)}

\* zx_channel_create(0, &h0, &h1) with result s
zx_channel_create(k, s) ==
    LET k1 == Syscall(k, "create", 0, 0)
    IN  IF s = ZX_OK THEN [k1 EXCEPT !.live = @ \cup {LocalEnd, RemoteEnd}] ELSE k1

\* zx_channel_read(h, ...) with result s, delivering nh handles
zx_channel_read(k, h, s, nh) ==
    LET k1 == Syscall(k, "read", h, nh)
    IN  IF s = ZX_OK /\ nh > 0 THEN [k1 EXCEPT !.live = @ \cup {AuxHandle}] ELSE k1

\* zx_object_wait_one(h, ...)
zx_object_wait_one(k, h) == Syscall(k, "wait", h, 0)

\* zxrio_connect that leaves cnxn open when the write fails
zxrio_connect_keeps_cnxn(k, svc, cnxn, op, flags, mode, len, ws) ==
    LET m == [ZeroMsg EXCEPT !.op = op, !.datalen = len, !.arg = flags,
                             !.off = mode, !.hcount = 1,
                             !.handle = <<cnxn, 0, 0, 0>>]
    IN  IF len >= PATH_MAX
        THEN [r |-> ZX_ERR_BAD_PATH, k |-> zx_handle_close(k, cnxn)]
        ELSE IF FlagSet(flags, ZX_FS_FLAG_DESCRIBE)
        THEN [r |-> ZX_ERR_INVALID_ARGS, k |-> zx_handle_close(k, cnxn)]
        ELSE [r |-> ws, k |-> zx_channel_write(k, svc, m.handle, 1, ws)]

\* zxrio_connect that writes the request before it checks the flags
zxrio_connect_writes_first(k, svc, cnxn, op, flags, mode, len, ws) ==
    LET m == [ZeroMsg EXCEPT !.op = op, !.datalen = len, !.arg = flags,
                             !.off = mode, !.hcount = 1,
                             !.handle = <<cnxn, 0, 0, 0>>]
        k1 == zx_channel_write(k, svc, m.handle, 1, ws)
    IN  IF len >= PATH_MAX
        THEN [r |-> ZX_ERR_BAD_PATH, k |-> zx_handle_close(k, cnxn)]
        ELSE IF FlagSet(flags, ZX_FS_FLAG_DESCRIBE)
        THEN [r |-> ZX_ERR_INVALID_ARGS, k |-> zx_handle_close(k1, cnxn)]
        ELSE IF ws < 0
        THEN [r |-> ws, k |-> zx_handle_close(k1, cnxn)]
        ELSE [r |-> ZX_OK, k |-> k1]

\* zxrio_connect(svc, cnxn, op, flags, mode, name): len is strlen(name), ws the
\* result of the channel write
zxrio_connect(k, svc, cnxn, op, flags, mode, len, ws) ==
    LET m == [ZeroMsg EXCEPT !.op = op, !.datalen = len, !.arg = flags,
                             !.off = mode, !.hcount = 1,
                             !.handle = <<cnxn, 0, 0, 0>>]
        k1 == zx_channel_write(k, svc, m.handle, 1, ws)
    IN  IF len >= PATH_MAX
        THEN [r |-> ZX_ERR_BAD_PATH, k |-> zx_handle_close(k, cnxn)]
        ELSE IF FlagSet(flags, ZX_FS_FLAG_DESCRIBE)
        THEN [r |-> ZX_ERR_INVALID_ARGS, k |-> zx_handle_close(k, cnxn)]
        ELSE IF ws < 0
        THEN [r |-> ws, k |-> zx_handle_close(k1, cnxn)]
        ELSE [r |-> ZX_OK, k |-> k1]

\* what the transport and the peer do during an open:
\*   cr, ws, rr   results of zx_channel_create, zx_channel_write, zx_channel_read
\*   dsize, nh    bytes and handles of the describe record read
\*   op, status, type   fields of the record
OpenEnv(cr, ws, rr, dsize, nh, op, status, type) ==
    [cr |-> cr, ws |-> ws, rr |-> rr, dsize |-> dsize, nh |-> nh, op |-> op,
     status |-> status, type |-> type]

\* the caller's *out and *info before the call
NoObject == [written |-> FALSE, h |-> 0, info |-> <<>>]

\* zxrio_sync_open_connection that keeps the local end when the reply is bad
zxrio_sync_open_connection_keeps_h(k, rio_h, m, e) ==
    LET k1 == zx_channel_create(k, e.cr)
        k2 == zx_channel_write(k1, rio_h, <<RemoteEnd, 0, 0, 0>>, 1, e.ws)
        k4 == zx_channel_read(zx_object_wait_one(k2, LocalEnd), LocalEnd, e.rr, e.nh)
        handle == IF e.nh = 0 THEN ZX_HANDLE_INVALID ELSE AuxHandle
        r == IF e.dsize # SizeofDescribe \/ e.op # ZXRIO_ON_OPEN
             THEN ZX_ERR_IO ELSE e.status
        info == [op |-> e.op, status |-> e.status, type |-> e.type, handle |-> handle]
    IN  IF e.cr < 0 THEN [r |-> e.cr, k |-> k1, obj |-> NoObject]
        ELSE IF e.ws < 0
        THEN [r |-> e.ws, obj |-> NoObject,
              k |-> zx_handle_close(zx_handle_close(k2, RemoteEnd), LocalEnd)]
        ELSE IF e.rr # ZX_OK
        THEN [r |-> e.rr, obj |-> NoObject, k |-> zx_handle_close(k4, LocalEnd)]
        ELSE [r |-> r, k |-> k4,
              obj |-> [written |-> TRUE, h |-> LocalEnd, info |-> info]]

\* zxrio_sync_open_connection(rio_h, msg, info, out)
zxrio_sync_open_connection(k, rio_h, m, e) ==
    LET k1 == zx_channel_create(k, e.cr)
        k2 == zx_channel_write(k1, rio_h, <<RemoteEnd, 0, 0, 0>>, 1, e.ws)
        k4 == zx_channel_read(zx_object_wait_one(k2, LocalEnd), LocalEnd, e.rr, e.nh)
        handle == IF e.nh = 0 THEN ZX_HANDLE_INVALID ELSE AuxHandle
        r == IF e.dsize # SizeofDescribe \/ e.op # ZXRIO_ON_OPEN
             THEN ZX_ERR_IO ELSE e.status
        info == [op |-> e.op, status |-> e.status, type |-> e.type, handle |-> handle]
        k5 == IF handle # ZX_HANDLE_INVALID THEN zx_handle_close(k4, handle) ELSE k4
    IN  IF e.cr < 0 THEN [r |-> e.cr, k |-> k1, obj |-> NoObject]
        ELSE IF e.ws < 0
        THEN [r |-> e.ws, obj |-> NoObject,
              k |-> zx_handle_close(zx_handle_close(k2, RemoteEnd), LocalEnd)]
        ELSE IF e.rr # ZX_OK
        THEN [r |-> e.rr, obj |-> NoObject, k |-> zx_handle_close(k4, LocalEnd)]
        ELSE IF r # ZX_OK
        THEN [r |-> r, k |-> zx_handle_close(k5, LocalEnd),
              obj |-> [written |-> TRUE, h |-> ZX_HANDLE_INVALID, info |-> info]]
        ELSE [r |-> r, k |-> k4,
              obj |-> [written |-> TRUE, h |-> LocalEnd, info |-> info]]

\* zxrio_getobject(rio_h, op, name, flags, mode, info, out): name is NULL or a
\* string of len characters
zxrio_getobject(k, rio_h, op, null, len, flags, mode, e) ==
    IF null THEN [r |-> ZX_ERR_INVALID_ARGS, k |-> k, obj |-> NoObject]
    ELSE IF len >= PATH_MAX THEN [r |-> ZX_ERR_BAD_PATH, k |-> k, obj |-> NoObject]
    ELSE IF FlagSet(flags, ZX_FS_FLAG_DESCRIBE)
    THEN zxrio_sync_open_connection(k, rio_h,
            [ZeroMsg EXCEPT !.op = op, !.datalen = len, !.arg = flags, !.off = mode],
            e)
    ELSE
    LET k1 == zx_channel_create(k, e.cr)
        c == zxrio_connect(k1, rio_h, RemoteEnd, ZXRIO_OPEN, flags, mode, len, e.ws)
    IN  IF e.cr < 0 THEN [r |-> e.cr, k |-> k1, obj |-> NoObject]
        ELSE IF c.r < 0
        THEN [r |-> c.r, k |-> zx_handle_close(c.k, LocalEnd), obj |-> NoObject]
        ELSE [r |-> ZX_OK, k |-> c.k,
              obj |-> [written |-> TRUE, h |-> LocalEnd,
                       \* info->op is not written on this path
                       info |-> [op |-> 0, status |-> ZX_OK,
                                 type |-> FDIO_PROTOCOL_REMOTE,
                                 handle |-> ZX_HANDLE_INVALID]]]

\* path lengths: "foo/bar", the longest path accepted, the shortest refused
PathLens == {7, PATH_MAX - 1, PATH_MAX}

OpenFlags ==
    {ZX_FS_RIGHT_READABLE + ZX_FS_RIGHT_WRITABLE,
     ZX_FS_RIGHT_READABLE + ZX_FS_RIGHT_WRITABLE + ZX_FS_FLAG_DESCRIBE}

\* mode 0755
OpenMode == 7 * 64 + 5 * 8 + 5

WriteResults == {ZX_OK, ZX_ERR_PEER_CLOSED, ZX_ERR_BAD_HANDLE}

OpenEnvs ==
    {OpenEnv(ZX_ERR_NO_MEMORY, ZX_OK, ZX_OK, 0, 0, 0, 0, 0),
     OpenEnv(ZX_OK, ZX_ERR_PEER_CLOSED, ZX_OK, 0, 0, 0, 0, 0),
     OpenEnv(ZX_OK, ZX_OK, ZX_ERR_PEER_CLOSED, 0, 0, 0, 0, 0)}
    \cup {OpenEnv(ZX_OK, ZX_OK, ZX_OK, ds, nh, op, st, ty) :
            ds \in {SizeofDescribe, SizeofDescribe - 4},
            nh \in {0, 1},
            op \in {ZXRIO_ON_OPEN, ZXRIO_STATUS},
            st \in {ZX_OK, ZX_ERR_NOT_FOUND, 1},
            ty \in {FDIO_PROTOCOL_REMOTE, FDIO_PROTOCOL_PIPE}}

\* the operations of this part leave the connection object alone
OpenDone(name, a, t, o) ==
    /\ call' = name
    /\ args' = a
    /\ ret' = t.r
    /\ live' = t.k.live
    /\ log' = t.k.log
    /\ out' = o
    /\ msg' = ZeroMsg
    /\ closes' = Closes(t.k.log)
    /\ UNCHANGED rio

\* zxrio_connect called with a connection handle of the caller, as
\* fdio_service_connect_at and fdio_service_clone_to call it
ZxrioConnect ==
    /\ rio.alloc /\ rio.h \in live
    /\ \E len \in PathLens, flags \in OpenFlags, ws \in WriteResults :
        OpenDone("zxrio_connect",
                 [svc |-> rio.h, cnxn |-> OutHandle(1), len |-> len,
                  flags |-> flags, ws |-> ws],
                 zxrio_connect(Entry({OutHandle(1)}), rio.h, OutHandle(1),
                               ZXRIO_OPEN, flags, OpenMode, len, ws),
                 <<>>)

ZxrioGetobject ==
    /\ rio.alloc /\ rio.h \in live
    /\ \E null \in BOOLEAN, len \in PathLens, flags \in OpenFlags, e \in OpenEnvs :
        /\ null => (len = 7 /\ e.cr < 0)
        /\ LET t == zxrio_getobject(Entry({}), rio.h, ZXRIO_OPEN, null, len,
                                    flags, OpenMode, e)
           IN  OpenDone("zxrio_getobject",
                        [rio_h |-> rio.h, null |-> null, len |-> len,
                         flags |-> flags, env |-> e],
                        t, t.obj)

\* zxrio_open_handle_raw(h, path, flags, mode, out)
zxrio_open_handle_raw(k, h, null, len, flags, mode, e) ==
    LET g == zxrio_getobject(k, h, ZXRIO_OPEN, null, len, flags, mode, e)
        control_channel == g.obj.h
        info == g.obj.info
        k1 == IF info.handle # ZX_HANDLE_INVALID
              THEN zx_handle_close(g.k, info.handle) ELSE g.k
    IN  IF g.r < 0 THEN [r |-> g.r, k |-> g.k, obj |-> [written |-> FALSE, h |-> 0]]
        ELSE IF info.type = FDIO_PROTOCOL_REMOTE
        THEN [r |-> ZX_OK, k |-> k1,
              obj |-> [written |-> TRUE, h |-> control_channel]]
        ELSE [r |-> ZX_ERR_WRONG_TYPE, k |-> zx_handle_close(k1, control_channel),
              obj |-> [written |-> FALSE, h |-> 0]]

ZxrioOpenHandleRaw ==
    /\ rio.alloc /\ rio.h \in live
    /\ \E null \in BOOLEAN, len \in PathLens, flags \in OpenFlags, e \in OpenEnvs :
        /\ null => (len = 7 /\ e.cr < 0)
        /\ LET t == zxrio_open_handle_raw(Entry({}), rio.h, null, len, flags,
                                          OpenMode, e)
           IN  OpenDone("zxrio_open_handle_raw",
                        [rio_h |-> rio.h, null |-> null, len |-> len,
                         flags |-> flags, env |-> e],
                        t, t.obj)

NextOpen == ZxrioConnect \/ ZxrioGetobject \/ ZxrioOpenHandleRaw

SpecOpen == Init /\ [][NextOpen]_vars

\* C6: zxrio_connect always consumes the connection handle cnxn: it is
\* closed exactly once on each failure (path of PATH_MAX characters or more,
\* ZX_FS_FLAG_DESCRIBE set, channel write failed) and handed to the peer, not
\* closed, on success; on no return path does the caller still hold it.
C6_ConnectConsumesCnxn ==
    (call = "zxrio_connect") =>
        LET tooLong == args.len >= PATH_MAX
            describe == FlagSet(args.flags, ZX_FS_FLAG_DESCRIBE)
            failed == tooLong \/ describe \/ args.ws < 0
        IN  /\ args.cnxn \notin live
            /\ failed <=> ret < 0
            /\ failed => CloseCount(log, args.cnxn) = 1
            /\ ~failed =>
                /\ ret = ZX_OK
                /\ CloseCount(log, args.cnxn) = 0
                /\ log = <<<<"write", args.svc, 1>>>>

\* the write of a well-formed pipelined open fails
C6_Witness ==
    /\ call = "zxrio_connect"
    /\ args.len = 7
    /\ ~FlagSet(args.flags, ZX_FS_FLAG_DESCRIBE)
    /\ args.ws = ZX_ERR_PEER_CLOSED
    /\ ret = ZX_ERR_PEER_CLOSED
    /\ log = <<<<"write", args.svc, 1>>, <<"close", args.cnxn, 0>>>>

C8_DescribeOpenFailureClosesAll ==
    (/\ call = "zxrio_getobject"
     /\ ~args.null /\ args.len < PATH_MAX
     /\ FlagSet(args.flags, ZX_FS_FLAG_DESCRIBE)) =>
        LET e == args.env
            replied == e.cr = ZX_OK /\ e.ws = ZX_OK /\ e.rr = ZX_OK
        IN  /\ (replied /\ (e.op # ZXRIO_ON_OPEN \/ e.dsize # SizeofDescribe)) =>
                ret = ZX_ERR_IO
            /\ ret # ZX_OK =>
                /\ live \cap OpenHandles = {}
                /\ \A h \in OpenHandles : CloseCount(log, h) <= 1
                /\ e.cr = ZX_OK => CloseCount(log, LocalEnd) = 1
                /\ (replied /\ e.nh = 1) => CloseCount(log, AuxHandle) = 1
                /\ out.written => out.h = ZX_HANDLE_INVALID
            /\ ret = ZX_OK =>
                /\ out.written /\ out.h = LocalEnd
                /\ live \cap OpenHandles
                     = {LocalEnd} \cup (IF e.nh = 1 THEN {AuxHandle} ELSE {})

\* the peer answers with op ZXRIO_STATUS and sends a handle along
C8_Witness ==
    /\ call = "zxrio_getobject"
    /\ FlagSet(args.flags, ZX_FS_FLAG_DESCRIBE)
    /\ args.len = 7
    /\ args.env.op = ZXRIO_STATUS
    /\ args.env.dsize = SizeofDescribe
    /\ args.env.status = ZX_OK
    /\ args.env.nh = 1
    /\ ret = ZX_ERR_IO
    /\ CloseCount(log, LocalEnd) = 1
    /\ CloseCount(log, AuxHandle) = 1

(***************************************************************************)
(* fdio_from_handles.                                                      *)
(***************************************************************************)
FDIO_FLAG_SOCKET_CONNECTED == 128

\* the i-th handle supplied to fdio_from_handles
FromHandle(i) == 50 + i
FromHandles == <<FromHandle(1), FromHandle(2), FromHandle(3), 0>>

\* the constructors fdio_service_create, fdio_pipe_create, fdio_vmofile_create
\* and fdio_socket_create: the object takes the handles hs, or, when there is
\* no memory for it (~ok), they are closed and the result is NULL
RECURSIVE CloseAll(_, _)
CloseAll(k, hs) ==
    IF hs = <<>> THEN k ELSE CloseAll(zx_handle_close(k, Head(hs)), Tail(hs))

NullObject == [kind |-> "NULL", hs |-> <<>>, extra |-> <<>>]

fdio_create(k, kind, hs, extra, ok) ==
    IF ok THEN [io |-> [kind |-> kind, hs |-> hs, extra |-> extra], k |-> k]
    ELSE [io |-> NullObject, k |-> CloseAll(k, hs)]

\* the remote object fdio_remote_create makes
fdio_remote_object(k, h, e, ok) ==
    LET c == fdio_remote_create(k, h, e, ok)
    IN  [io |-> IF ok THEN [kind |-> "remote", hs |-> <<h, e>>, extra |-> <<>>]
                ELSE NullObject,
         k |-> c.k]

\* return of a constructor's result: ZX_ERR_NO_RESOURCES for NULL
FromHandlesMade(c) ==
    IF c.io = NullObject
    THEN [r |-> ZX_ERR_NO_RESOURCES, k |-> c.k, written |-> FALSE, io |-> NullObject]
    ELSE [r |-> ZX_OK, k |-> c.k, written |-> TRUE, io |-> c.io]

\* the end of fdio_from_handles without the discard_handles call
FromHandlesReject_leak(k, handles, hcount, r) ==
    [r |-> r, k |-> k, written |-> FALSE, io |-> NullObject]

\* the end of fdio_from_handles: discard_handles(handles, hcount); return r
FromHandlesReject(k, handles, hcount, r) ==
    [r |-> r, k |-> discard_handles(k, handles, 0, hcount), written |-> FALSE,
     io |-> NullObject]

\* fdio_from_handles(type, handles, hcount, extra, out); newSocket is the build's
\* WITH_NEW_SOCKET, ok whether the constructor called finds memory
fdio_from_handles(k, type, handles, hcount, extra, newSocket, ok) ==
    LET flags == IF type = FDIO_PROTOCOL_SOCKET_CONNECTED
                 THEN FDIO_FLAG_SOCKET_CONNECTED ELSE 0
        invalid == FromHandlesReject(k, handles, hcount, ZX_ERR_INVALID_ARGS)
    IN  CASE type = FDIO_PROTOCOL_REMOTE ->
                IF hcount = 1
                THEN FromHandlesMade(fdio_remote_object(k, handles[1], 0, ok))
                ELSE IF hcount = 2
                THEN FromHandlesMade(fdio_remote_object(k, handles[1], handles[2], ok))
                ELSE invalid
          [] type = FDIO_PROTOCOL_SERVICE ->
                IF hcount # 1 THEN invalid
                ELSE FromHandlesMade(fdio_create(k, "service", <<handles[1]>>, <<>>, ok))
          [] type = FDIO_PROTOCOL_PIPE ->
                IF hcount # 1 THEN invalid
                ELSE FromHandlesMade(fdio_create(k, "pipe", <<handles[1]>>, <<>>, ok))
          [] type = FDIO_PROTOCOL_VMOFILE ->
                IF hcount # 2 THEN invalid
                ELSE FromHandlesMade(
                        fdio_create(zx_handle_close(k, handles[1]), "vmofile",
                                    <<handles[2]>>,
                                    <<extra.offset, extra.length>>, ok))
          [] type \in {FDIO_PROTOCOL_SOCKET_CONNECTED, FDIO_PROTOCOL_SOCKET} ->
                IF newSocket
                THEN IF hcount # 2 THEN invalid
                     ELSE FromHandlesMade(
                            fdio_create(zx_handle_close(k, handles[1]), "socket",
                                        <<handles[2]>>, <<flags>>, ok))
                ELSE IF hcount = 1
                THEN FromHandlesMade(
                        fdio_create(k, "socket", <<handles[1], ZX_HANDLE_INVALID>>,
                                    <<flags>>, ok))
                ELSE IF hcount = 2
                THEN FromHandlesMade(
                        fdio_create(k, "socket", <<handles[1], handles[2]>>,
                                    <<flags>>, ok))
                ELSE invalid
          [] OTHER -> FromHandlesReject(k, handles, hcount, ZX_ERR_NOT_SUPPORTED)

\* the type tags tried: the six the code knows and one it does not
FromTypes ==
    {FDIO_PROTOCOL_SERVICE, FDIO_PROTOCOL_REMOTE, FDIO_PROTOCOL_PIPE,
     FDIO_PROTOCOL_VMOFILE, FDIO_PROTOCOL_SOCKET_CONNECTED, FDIO_PROTOCOL_SOCKET,
     FDIO_PROTOCOL_SOCKET + 1}

FromExtras == [offset : {0, 4096}, length : {0, 512}]

SuppliedHandles(hcount) == {FromHandle(i) : i \in 1..hcount}

FdioFromHandles ==
    \E type \in FromTypes, hcount \in 0..FDIO_MAX_HANDLES, extra \in FromExtras,
       newSocket \in BOOLEAN, ok \in BOOLEAN :
        LET t == fdio_from_handles(Entry(SuppliedHandles(hcount)), type,
                                   FromHandles, hcount, extra, newSocket, ok)
        IN  /\ call' = "fdio_from_handles"
            /\ args' = [type |-> type, hcount |-> hcount, extra |-> extra,
                        newSocket |-> newSocket, ok |-> ok]
            /\ ret' = t.r
            /\ live' = t.k.live
            /\ log' = t.k.log
            /\ out' = [written |-> t.written, io |-> t.io]
            /\ msg' = ZeroMsg
            /\ closes' = Closes(t.k.log)
            /\ UNCHANGED rio

NextFrom == FdioFromHandles

SpecFrom == Init /\ [][NextFrom]_vars

\* the handle counts a type accepts, for the types the claim C9 names
FromCountAllowed(type, hcount) ==
    CASE type = FDIO_PROTOCOL_REMOTE -> hcount \in {1, 2}
      [] type = FDIO_PROTOCOL_SERVICE -> hcount = 1
      [] type = FDIO_PROTOCOL_PIPE -> hcount = 1
      [] type = FDIO_PROTOCOL_VMOFILE -> hcount = 2

\* C9: fdio_from_handles leaks no handle on a rejected open.  For a type tag
\* it does not know it returns ZX_ERR_NOT_SUPPORTED, for a handle count the
\* type does not allow (REMOTE 1 or 2, SERVICE 1, PIPE 1, VMOFILE 2)
\* ZX_ERR_INVALID_ARGS, and in both cases every supplied handle is closed
\* exactly once and nothing else is done; for VMOFILE with 2 handles it closes
\* handles[0] and builds the region object from handles[1] with the offset
\* and length supplied.
C9_FromHandlesRejectClosesAll ==
    (call = "fdio_from_handles") =>
        LET known == {FDIO_PROTOCOL_SERVICE, FDIO_PROTOCOL_REMOTE,
                      FDIO_PROTOCOL_PIPE, FDIO_PROTOCOL_VMOFILE,
                      FDIO_PROTOCOL_SOCKET_CONNECTED, FDIO_PROTOCOL_SOCKET}
            counted == {FDIO_PROTOCOL_SERVICE, FDIO_PROTOCOL_REMOTE,
                        FDIO_PROTOCOL_PIPE, FDIO_PROTOCOL_VMOFILE}
            supplied == SuppliedHandles(args.hcount)
            allClosedOnce ==
                /\ \A h \in supplied : CloseCount(log, h) = 1
                /\ Len(log) = args.hcount
                /\ live \cap supplied = {}
                /\ ~out.written
        IN  /\ args.type \notin known =>
                (ret = ZX_ERR_NOT_SUPPORTED /\ allClosedOnce)
            /\ (args.type \in counted /\ ~FromCountAllowed(args.type, args.hcount)) =>
                (ret = ZX_ERR_INVALID_ARGS /\ allClosedOnce)
            /\ (args.type = FDIO_PROTOCOL_VMOFILE /\ args.hcount = 2) =>
                /\ CloseCount(log, FromHandle(1)) = 1
                /\ args.ok =>
                    /\ ret = ZX_OK
                    /\ out.written
                    /\ out.io = [kind |-> "vmofile", hs |-> <<FromHandle(2)>>,
                                 extra |-> <<args.extra.offset, args.extra.length>>]
                    /\ live \cap supplied = {FromHandle(2)}
                    /\ log = <<<<"close", FromHandle(1), 0>>>>

\* a VMOFILE tag arrives with one handle
C9_Witness ==
    /\ call = "fdio_from_handles"
    /\ args.type = FDIO_PROTOCOL_VMOFILE
    /\ args.hcount = 1
    /\ ret = ZX_ERR_INVALID_ARGS
    /\ log = <<<<"close", FromHandle(1), 0>>>>
    /\ live \cap SuppliedHandles(3) = {}

(***************************************************************************)
(* The message checks on their own.                                        *)
(***************************************************************************)
\* messages handed to the checks: lengths and counts at, next to and far from
\* the limits (2147483647 stands for the large uint32_t values), the other
\* header fields varied
CodecMsgs ==
    {[txid |-> 1, op |-> op, datalen |-> datalen, arg |-> arg, off |-> 0,
      hcount |-> hcount,
      handle |-> [i \in 1..FDIO_MAX_HANDLES + 1 |->
                    IF i <= hcount THEN OutHandle(i) ELSE 0]] :
        op \in {ZXRIO_STATUS, ZXRIO_READ, ZXRIO_IOCTL_2H},
        arg \in {-1, 0, 5},
        datalen \in {0, 1, FDIO_CHUNK_SIZE - 1, FDIO_CHUNK_SIZE,
                     FDIO_CHUNK_SIZE + 1, 2147483647},
        hcount \in {0, FDIO_MAX_HANDLES - 1, FDIO_MAX_HANDLES,
                    FDIO_MAX_HANDLES + 1, 2147483647}}

\* is_message_valid(&m): the function assigns nothing through msg, so the
\* message after the call is the message before it
IsMessageValid ==
    \E m \in CodecMsgs :
        /\ call' = "is_message_valid"
        /\ args' = [msg |-> m]
        /\ ret' = IF is_message_valid(m) THEN 1 ELSE 0
        /\ msg' = m
        /\ out' = <<>>
        /\ log' = <<>>
        /\ closes' = Closes(<<>>)
        /\ UNCHANGED <<rio, live>>

\* sizes the transport reports for a message read into a zxrio_msg_t: none,
\* short of a header, a header, and up to the whole buffer
WireSizes ==
    {0, ZXRIO_HDR_SZ - 1, ZXRIO_HDR_SZ, ZXRIO_HDR_SZ + 1,
     ZXRIO_HDR_SZ + FDIO_CHUNK_SIZE - 1, ZXRIO_HDR_SZ + FDIO_CHUNK_SIZE}

\* messages as zxrio_txn and zxrio_read_msg hand them to the reply check: the
\* bytes are the peer's, hcount is the count the transport reported, which is
\* at most the FDIO_MAX_HANDLES slots it was given
WireMsgs == {m \in CodecMsgs : m.hcount <= FDIO_MAX_HANDLES}

\* is_message_reply_valid(&m, size)
IsMessageReplyValid ==
    \E m \in WireMsgs, size \in WireSizes :
        /\ call' = "is_message_reply_valid"
        /\ args' = [msg |-> m, size |-> size]
        /\ ret' = IF is_message_reply_valid(m, size) THEN 1 ELSE 0
        /\ msg' = m
        /\ out' = <<>>
        /\ log' = <<>>
        /\ closes' = Closes(<<>>)
        /\ UNCHANGED <<rio, live>>

NextCodec == IsMessageValid \/ IsMessageReplyValid

SpecCodec == Init /\ [][NextCodec]_vars

\* C10: is_message_valid returns false exactly when the message's datalen is
\* above FDIO_CHUNK_SIZE or its hcount is above FDIO_MAX_HANDLES, for every
\* message, and no field of the message differs after the call.
C10_ValidIffWithinLimits ==
    (call = "is_message_valid") =>
        /\ (ret = 0) <=> (args.msg.datalen > FDIO_CHUNK_SIZE
                          \/ args.msg.hcount > FDIO_MAX_HANDLES)
        /\ ret \in {0, 1}
        /\ msg = args.msg

\* a message exactly at both limits is accepted
C10_Witness ==
    /\ call = "is_message_valid"
    /\ args.msg.datalen = FDIO_CHUNK_SIZE
    /\ args.msg.hcount = FDIO_MAX_HANDLES
    /\ ret = 1
    /\ msg = args.msg

\* C11: for every message read off the wire into a buffer, with S the size
\* the transport reported, is_message_reply_valid returns false exactly when
\* S < ZXRIO_HDR_SZ or the message's datalen differs from S - ZXRIO_HDR_SZ.
C11_ReplyValidIffFramed ==
    (call = "is_message_reply_valid") =>
        ((ret = 0) <=> (args.size < ZXRIO_HDR_SZ
                        \/ args.msg.datalen # args.size - ZXRIO_HDR_SZ))

\* a reply of one header and no payload, carrying the most handles, is accepted
C11_Witness ==
    /\ call = "is_message_reply_valid"
    /\ args.size = ZXRIO_HDR_SZ
    /\ args.msg.datalen = 0
    /\ args.msg.hcount = FDIO_MAX_HANDLES
    /\ ret = 1

\* C12: after a completed exchange zxrio_txn classifies the reply in this
\* order: a reply that fails the framing check or whose op is not ZXRIO_STATUS
\* gives ZX_ERR_IO, also when its arg is negative; otherwise a negative arg is
\* returned as it is; otherwise the non-negative arg is returned, msg.hcount is
\* the number of handles received and those handles are in the message, open.
C12_ReplyClassifiedInOrder ==
    (call = "zxrio_txn" /\ is_message_valid(args.msg) /\ args.env.r = ZX_OK) =>
        LET e == args.env
        IN  IF TxnSizeMismatch(e) \/ TxnOpMismatch(e)
            THEN ret = ZX_ERR_IO
            ELSE IF e.arg < 0
            THEN ret = e.arg
            ELSE /\ ret = e.arg
                 /\ msg.hcount = e.nh
                 /\ \A i \in 1..e.nh :
                        /\ msg.handle[i] = ReplyHandle(i)
                        /\ ReplyHandle(i) \in live
                        /\ CloseCount(log, ReplyHandle(i)) = 0

\* a reply with op ZXRIO_CLOSE and a negative arg gives ZX_ERR_IO
C12_Witness ==
    /\ call = "zxrio_txn"
    /\ is_message_valid(args.msg)
    /\ args.env.r = ZX_OK
    /\ ~TxnSizeMismatch(args.env)
    /\ ZXRIO_OP(args.env.op) = ZXRIO_CLOSE
    /\ args.env.arg = ZX_ERR_NOT_SUPPORTED
    /\ ret = ZX_ERR_IO

(***************************************************************************)
(* Server dispatch: zxrio_read_msg, zxrio_respond, zxrio_handle_rpc,       *)
(* zxrio_handle_close, zxrio_handler.                                      *)
(***************************************************************************)
ZX_ERR_SHOULD_WAIT == -22
ERR_DISPATCHER_INDIRECT == -61
ERR_DISPATCHER_ASYNC == -62
ERR_DISPATCHER_DONE == -60

\* what the transport delivers to one zx_channel_read of a request:
\*   rr      the result of the read
\*   dsize   bytes of the message, nh handles delivered with it
\*   op, arg, datalen   header fields of the message
Inbound(rr, dsize, nh, op, arg, datalen) ==
    [rr |-> rr, dsize |-> dsize, nh |-> nh, op |-> op, arg |-> arg,
     datalen |-> datalen, hcount |-> 0]

\* the same delivery with n in the hcount field of the bytes the peer wrote
Embedded(e, n) == [e EXCEPT !.hcount = n]

\* a well-formed request
Request(op, datalen, nh) ==
    Inbound(ZX_OK, ZXRIO_HDR_SZ + datalen, nh, op, 0, datalen)

\* the message buffer after a successful read: the header fields when a whole
\* header came, the hcount field the peer wrote among them, and the handles
\* the transport delivered in the handle slots
InboundMsg(m, e) ==
    LET handle == [i \in 1..4 |-> IF i <= e.nh THEN ReplyHandle(i) ELSE m.handle[i]]
    IN  IF e.dsize >= ZXRIO_HDR_SZ
        THEN [txid |-> 1, op |-> e.op, datalen |-> e.datalen, arg |-> e.arg,
              off |-> 0, hcount |-> e.hcount, handle |-> handle]
        ELSE [m EXCEPT !.handle = handle]

\* zx_channel_read(h, 0, msg, msg->handle, dsz, FDIO_MAX_HANDLES, &dsz, &hcount)
zx_channel_read_msg(k, h, e) ==
    LET k1 == Syscall(k, "read", h, e.nh)
    IN  IF e.rr = ZX_OK
        THEN [k1 EXCEPT !.live = @ \cup {ReplyHandle(i) : i \in 1..e.nh}]
        ELSE k1

\* zxrio_read_msg that returns on a bad message without closing its handles
zxrio_read_msg_leak(k, h, m, e) ==
    LET k1 == zx_channel_read_msg(k, h, e)
        m1 == [InboundMsg(m, e) EXCEPT !.hcount = e.nh]
    IN  IF e.rr # ZX_OK THEN [r |-> e.rr, msg |-> m, k |-> k1]
        ELSE IF ~is_message_reply_valid(m1, e.dsize)
        THEN [r |-> ZX_ERR_INVALID_ARGS, msg |-> m1, k |-> k1]
        ELSE [r |-> ZX_OK, msg |-> m1, k |-> k1]

\* zxrio_read_msg that keeps the hcount field the peer wrote in the message
zxrio_read_msg_trusts_field(k, h, m, e) ==
    LET k1 == zx_channel_read_msg(k, h, e)
        m1 == InboundMsg(m, e)
    IN  IF e.rr # ZX_OK THEN [r |-> e.rr, msg |-> m, k |-> k1]
        ELSE IF ~is_message_reply_valid(m1, e.dsize)
        THEN [r |-> ZX_ERR_INVALID_ARGS, msg |-> m1,
              k |-> discard_handles(k1, m1.handle, 0, m1.hcount)]
        ELSE [r |-> ZX_OK, msg |-> m1, k |-> k1]

\* zxrio_read_msg(h, msg)
zxrio_read_msg(k, h, m, e) ==
    LET k1 == zx_channel_read_msg(k, h, e)
        m1 == [InboundMsg(m, e) EXCEPT !.hcount = e.nh]
    IN  IF e.rr # ZX_OK THEN [r |-> e.rr, msg |-> m, k |-> k1]
        ELSE IF ~is_message_reply_valid(m1, e.dsize)
        THEN [r |-> ZX_ERR_INVALID_ARGS, msg |-> m1,
              k |-> discard_handles(k1, m1.handle, 0, m1.hcount)]
        ELSE [r |-> ZX_OK, msg |-> m1, k |-> k1]

\* zxrio_respond that sends the message with the op it came with
zxrio_respond_keeps_op(k, h, m, ws) ==
    LET bad == (m.arg < 0) \/ ~is_message_valid(m)
        k1 == IF bad THEN discard_handles(k, m.handle, 0, m.hcount) ELSE k
        m1 == IF bad
              THEN [m EXCEPT !.datalen = 0, !.hcount = 0,
                             !.arg = IF m.arg < 0 THEN m.arg ELSE ZX_ERR_INTERNAL]
              ELSE m
        k2 == zx_channel_write(k1, h, m1.handle, m1.hcount, ws)
    IN  [r |-> ws, msg |-> m1, wire |-> <<m1>>,
         k |-> IF ws # ZX_OK THEN discard_handles(k2, m1.handle, 0, m1.hcount)
               ELSE k2]

\* zxrio_respond that leaves msg->hcount as it was after discarding the handles
zxrio_respond_keeps_count(k, h, m, ws) ==
    LET bad == (m.arg < 0) \/ ~is_message_valid(m)
        k1 == IF bad THEN discard_handles(k, m.handle, 0, m.hcount) ELSE k
        m1 == IF bad
              THEN [m EXCEPT !.datalen = 0,
                             !.arg = IF m.arg < 0 THEN m.arg ELSE ZX_ERR_INTERNAL]
              ELSE m
        m2 == [m1 EXCEPT !.op = ZXRIO_STATUS]
        k2 == zx_channel_write(k1, h, m2.handle, m2.hcount, ws)
    IN  [r |-> ws, msg |-> m2, wire |-> <<m2>>,
         k |-> IF ws # ZX_OK THEN discard_handles(k2, m2.handle, 0, m2.hcount)
               ELSE k2]

\* zxrio_respond(h, msg): ws is the result of the channel write, wire the
\* message as it was written
zxrio_respond(k, h, m, ws) ==
    LET bad == (m.arg < 0) \/ ~is_message_valid(m)
        k1 == IF bad THEN discard_handles(k, m.handle, 0, m.hcount) ELSE k
        m1 == IF bad
              THEN [m EXCEPT !.datalen = 0, !.hcount = 0,
                             !.arg = IF m.arg < 0 THEN m.arg ELSE ZX_ERR_INTERNAL]
              ELSE m
        m2 == [m1 EXCEPT !.op = ZXRIO_STATUS]
        k2 == zx_channel_write(k1, h, m2.handle, m2.hcount, ws)
    IN  [r |-> ws, msg |-> m2, wire |-> <<m2>>,
         k |-> IF ws # ZX_OK THEN discard_handles(k2, m2.handle, 0, m2.hcount)
               ELSE k2]

\* what a callback does with the message it is given:
\*   v        the value it returns
\*   datalen  the payload length it leaves in the message
\*   own      whether it took the request's handles and put hcount handles of
\*            its own into the message, or left hcount and the handles alone
\*   hcount   the count it leaves when own
CbOutcome(v, datalen, own, hcount) ==
    [v |-> v, datalen |-> datalen, own |-> own, hcount |-> hcount]

\* cb(msg, cookie): the call is put on the log, with the op it was given
Callback(k, m, cb) ==
    LET k1 == Syscall(k, "cb", m.op, m.hcount)
    IN  IF cb.own
        THEN [msg |-> [m EXCEPT !.datalen = cb.datalen, !.hcount = cb.hcount,
                                !.handle = [i \in 1..4 |->
                                    IF i <= cb.hcount THEN OutHandle(i) ELSE 0]],
              k |-> [k1 EXCEPT !.live =
                        (@ \ {m.handle[i] : i \in 1..m.hcount})
                        \cup {OutHandle(i) : i \in 1..cb.hcount}]]
        ELSE [msg |-> [m EXCEPT !.datalen = cb.datalen], k |-> k1]

\* what a dispatch leaves behind: its result, the message buffer, the messages
\* the callback was given and the messages written to the channel
Dispatched(r, m, k, cbmsgs, wire) ==
    [r |-> r, msg |-> m, k |-> k, cbmsgs |-> cbmsgs, wire |-> wire]

\* zxrio_handle_rpc that replies to a close request and returns the status of
\* the reply
zxrio_handle_rpc_no_done(k, h, m, e, cb, ws) ==
    LET rd == zxrio_read_msg(k, h, m, e)
        c  == Callback(rd.k, rd.msg, cb)
        m1 == [c.msg EXCEPT !.arg = cb.v]
        rs == zxrio_respond(c.k, h, m1, ws)
    IN  IF rd.r # ZX_OK THEN Dispatched(rd.r, rd.msg, rd.k, <<>>, <<>>)
        ELSE IF m1.arg = ERR_DISPATCHER_INDIRECT
        THEN Dispatched(ZX_OK, m1, c.k, <<rd.msg>>, <<>>)
        ELSE IF m1.arg = ERR_DISPATCHER_ASYNC
        THEN Dispatched(ERR_DISPATCHER_ASYNC, m1, c.k, <<rd.msg>>, <<>>)
        ELSE Dispatched(rs.r, rs.msg, rs.k, <<rd.msg>>, rs.wire)

\* zxrio_handle_rpc that replies whatever the callback returned
zxrio_handle_rpc_always_replies(k, h, m, e, cb, ws) ==
    LET rd == zxrio_read_msg(k, h, m, e)
        is_close == ZXRIO_OP(rd.msg.op) = ZXRIO_CLOSE
        c  == Callback(rd.k, rd.msg, cb)
        m1 == [c.msg EXCEPT !.arg = cb.v]
        rs == zxrio_respond(c.k, h, m1, ws)
    IN  IF rd.r # ZX_OK THEN Dispatched(rd.r, rd.msg, rd.k, <<>>, <<>>)
        ELSE Dispatched(IF is_close THEN ERR_DISPATCHER_DONE ELSE rs.r,
                        rs.msg, rs.k, <<rd.msg>>, rs.wire)

\* zxrio_handle_rpc(h, msg, cb, cookie): e is what the read delivers, cb what
\* the callback does, ws the result of the reply's channel write
zxrio_handle_rpc(k, h, m, e, cb, ws) ==
    LET rd == zxrio_read_msg(k, h, m, e)
        is_close == ZXRIO_OP(rd.msg.op) = ZXRIO_CLOSE
        c  == Callback(rd.k, rd.msg, cb)
        m1 == [c.msg EXCEPT !.arg = cb.v]
        rs == zxrio_respond(c.k, h, m1, ws)
    IN  IF rd.r # ZX_OK THEN Dispatched(rd.r, rd.msg, rd.k, <<>>, <<>>)
        ELSE IF m1.arg = ERR_DISPATCHER_INDIRECT
        THEN Dispatched(ZX_OK, m1, c.k, <<rd.msg>>, <<>>)
        ELSE IF m1.arg = ERR_DISPATCHER_ASYNC
        THEN Dispatched(ERR_DISPATCHER_ASYNC, m1, c.k, <<rd.msg>>, <<>>)
        ELSE Dispatched(IF is_close THEN ERR_DISPATCHER_DONE ELSE rs.r,
                        rs.msg, rs.k, <<rd.msg>>, rs.wire)

\* zxrio_handle_close(cb, cookie): m is the message local as it is before the
\* four assignments; the value the callback returns is dropped
zxrio_handle_close(k, m, cb) ==
    LET m1 == [m EXCEPT !.op = ZXRIO_CLOSE, !.arg = 0, !.datalen = 0, !.hcount = 0]
        c  == Callback(k, m1, cb)
    IN  Dispatched(ZX_OK, c.msg, c.k, <<m1>>, <<>>)

\* zxrio_handler that returns what the callback returned for a closed channel
zxrio_handler_returns_cb(k, h, m, e, cb, ws) ==
    IF h = ZX_HANDLE_INVALID
    THEN [zxrio_handle_close(k, m, cb) EXCEPT !.r = cb.v]
    ELSE zxrio_handle_rpc(k, h, m, e, cb, ws)

\* zxrio_handler(h, cb, cookie)
zxrio_handler(k, h, m, e, cb, ws) ==
    IF h = ZX_HANDLE_INVALID
    THEN zxrio_handle_close(k, m, cb)
    ELSE zxrio_handle_rpc(k, h, m, e, cb, ws)

\* a message local before anything is assigned to it: its content is whatever
\* the stack held
StackMsgs ==
    {ZeroMsg,
     [txid |-> 77, op |-> ZXRIO_WRITE, datalen |-> 77, arg |-> 77, off |-> 77,
      hcount |-> 2, handle |-> <<77, 77, 77, 77>>]}

Inbounds ==
    {Inbound(ZX_ERR_PEER_CLOSED, 0, 0, 0, 0, 0),
     Inbound(ZX_ERR_SHOULD_WAIT, 0, 0, 0, 0, 0),
     Inbound(ZX_ERR_BUFFER_TOO_SMALL, 0, 0, 0, 0, 0)}
    \cup {Request(ZXRIO_CLOSE, 0, 0), Request(ZXRIO_READ, 8, 2),
          Request(1024 + ZXRIO_CLOSE, 0, 0)}
    \cup {Inbound(ZX_OK, ds, nh, ZXRIO_WRITE, 0, 8) :
            ds \in {4, ZXRIO_HDR_SZ, ZXRIO_HDR_SZ + 16},
            nh \in {0, FDIO_MAX_HANDLES}}

CbValues ==
    {ERR_DISPATCHER_INDIRECT, ERR_DISPATCHER_ASYNC, ZX_ERR_NOT_SUPPORTED, 0, 5}

\* a callback leaves the message's handles alone, or puts none, two or one too
\* many of its own; it leaves no payload, some, or too much
CbOutcomes ==
    {CbOutcome(v, dl, FALSE, 0) : v \in CbValues, dl \in {0, 8}}
    \cup {CbOutcome(v, 8, TRUE, hc) :
            v \in CbValues, hc \in {0, 2, FDIO_MAX_HANDLES + 1}}
    \cup {CbOutcome(v, FDIO_CHUNK_SIZE + 1, TRUE, 0) : v \in CbValues}

ServerDone(name, a, t) ==
    /\ call' = name
    /\ args' = a
    /\ ret' = t.r
    /\ live' = t.k.live
    /\ log' = t.k.log
    /\ out' = [cbmsgs |-> t.cbmsgs, wire |-> t.wire]
    /\ msg' = t.msg
    /\ closes' = Closes(t.k.log)
    /\ UNCHANGED rio

\* zxrio_handler on the channel of a connection, or with no channel
ZxrioHandler ==
    /\ rio.alloc /\ rio.h \in live
    /\ \E h \in {ZX_HANDLE_INVALID, rio.h}, m \in StackMsgs, e \in Inbounds,
          cb \in CbOutcomes, ws \in {ZX_OK, ZX_ERR_PEER_CLOSED} :
        /\ h = ZX_HANDLE_INVALID =>
              (e = Inbound(ZX_ERR_PEER_CLOSED, 0, 0, 0, 0, 0) /\ ws = ZX_OK)
        /\ (h # ZX_HANDLE_INVALID
            /\ (e.rr # ZX_OK \/ ~is_message_reply_valid(InboundMsg(m, e), e.dsize))) =>
              (cb = CbOutcome(0, 0, FALSE, 0) /\ ws = ZX_OK)
        /\ cb.v \in {ERR_DISPATCHER_INDIRECT, ERR_DISPATCHER_ASYNC} => ws = ZX_OK
        /\ (h # ZX_HANDLE_INVALID /\ e.dsize >= ZXRIO_HDR_SZ) => m = ZeroMsg
        /\ ServerDone("zxrio_handler",
                      [h |-> h, stack |-> m, env |-> e, cb |-> cb, ws |-> ws],
                      zxrio_handler(Entry({}), h, m, e, cb, ws))

\* the messages zxrio_respond is called with: a status, a count or zero as
\* arg, payload and handles within and beyond the limits
RespondMsgs ==
    {[txid |-> 1, op |-> op, datalen |-> dl, arg |-> arg, off |-> 0,
      hcount |-> hc,
      handle |-> [i \in 1..4 |-> IF i <= hc THEN OutHandle(i) ELSE 0]] :
        op \in {ZXRIO_READ, ZXRIO_CLOSE},
        arg \in {ZX_ERR_NOT_SUPPORTED, 0, 5},
        dl \in {0, FDIO_CHUNK_SIZE, FDIO_CHUNK_SIZE + 1},
        hc \in {0, 1, FDIO_MAX_HANDLES, FDIO_MAX_HANDLES + 1}}

\* zxrio_respond called on its own, as a callback that replies itself calls it
ZxrioRespond ==
    /\ rio.alloc /\ rio.h \in live
    /\ \E m \in RespondMsgs, ws \in {ZX_OK, ZX_ERR_PEER_CLOSED} :
        LET t == zxrio_respond(Entry({m.handle[i] : i \in 1..m.hcount}),
                               rio.h, m, ws)
        IN  ServerDone("zxrio_respond", [h |-> rio.h, msg |-> m, ws |-> ws],
                       Dispatched(t.r, t.msg, t.k, <<>>, t.wire))

NextServer == ZxrioHandler \/ ZxrioRespond

SpecServer == Init /\ [][NextServer]_vars

\* a dispatch whose request was read and passed validation
Dispatching ==
    /\ call = "zxrio_handler"
    /\ args.h # ZX_HANDLE_INVALID
    /\ args.env.rr = ZX_OK
    /\ args.env.dsize >= ZXRIO_HDR_SZ
    /\ args.env.datalen = args.env.dsize - ZXRIO_HDR_SZ

\* the callback returned neither of the two reserved values
OrdinaryValue ==
    args.cb.v \notin {ERR_DISPATCHER_INDIRECT, ERR_DISPATCHER_ASYNC}

\* the message the callback left is over a limit of is_message_valid
LeftOverLimit ==
    \/ args.cb.datalen > FDIO_CHUNK_SIZE
    \/ (IF args.cb.own THEN args.cb.hcount ELSE args.env.nh) > FDIO_MAX_HANDLES

\* in the log the callback comes before the channel write
CbThenWrite ==
    \E i, j \in 1..Len(log) : i < j /\ log[i][1] = "cb" /\ log[j][1] = "write"

\* the callback is called once per validated request, and a reserved value
\* means no reply
CallbackOnce ==
    /\ KindCount(log, "cb") = 1
    /\ Len(out.cbmsgs) = 1
    /\ args.cb.v = ERR_DISPATCHER_INDIRECT =>
        (KindCount(log, "write") = 0 /\ out.wire = <<>> /\ ret = ZX_OK)
    /\ args.cb.v = ERR_DISPATCHER_ASYNC =>
        (KindCount(log, "write") = 0 /\ out.wire = <<>>
         /\ ret = ERR_DISPATCHER_ASYNC)
    /\ OrdinaryValue =>
        (KindCount(log, "write") = 1 /\ Len(out.wire) = 1 /\ CbThenWrite)

\* C13 as it is stated: for every request read and validated the callback is
\* called exactly once; ERR_DISPATCHER_INDIRECT gives no reply and ZX_OK,
\* ERR_DISPATCHER_ASYNC no reply and ERR_DISPATCHER_ASYNC, and any other value
\* exactly one reply carrying that value as arg.
C13_ReplyCarriesCallbackValue ==
    Dispatching =>
        /\ CallbackOnce
        /\ OrdinaryValue => out.wire[1].arg = args.cb.v

\* C13, amended: as above, but the one reply carries the callback's value
\* only when that value is negative or the message the callback left passes
\* is_message_valid; a non-negative value with a message over a limit is
\* replied to with arg ZX_ERR_INTERNAL.
C13_CallbackOnceThenReply ==
    Dispatching =>
        /\ CallbackOnce
        /\ OrdinaryValue =>
            out.wire[1].arg = IF args.cb.v >= 0 /\ LeftOverLimit
                              THEN ZX_ERR_INTERNAL ELSE args.cb.v

\* a callback returns 5 with one handle too many in the message
C13_Witness ==
    /\ Dispatching
    /\ args.cb.v = 5
    /\ args.cb.own /\ args.cb.hcount = FDIO_MAX_HANDLES + 1
    /\ KindCount(log, "cb") = 1
    /\ Len(out.wire) = 1
    /\ out.wire[1].arg = ZX_ERR_INTERNAL

\* C14: when the request's op is ZXRIO_CLOSE and the callback returned an
\* ordinary value, zxrio_handle_rpc sends the reply and then returns
\* ERR_DISPATCHER_DONE; for another op with an ordinary value it returns the
\* status of sending the reply.
C14_CloseRepliesThenDone ==
    (Dispatching /\ OrdinaryValue) =>
        /\ KindCount(log, "write") = 1
        /\ CbThenWrite
        /\ IF ZXRIO_OP(args.env.op) = ZXRIO_CLOSE
           THEN ret = ERR_DISPATCHER_DONE
           ELSE ret = args.ws

\* a close request is answered, the write fails, and the result is still
\* ERR_DISPATCHER_DONE
C14_Witness ==
    /\ Dispatching
    /\ OrdinaryValue
    /\ args.env.op = ZXRIO_CLOSE
    /\ args.ws = ZX_ERR_PEER_CLOSED
    /\ KindCount(log, "write") = 1
    /\ ret = ERR_DISPATCHER_DONE

\* C15: zxrio_handler called with ZX_HANDLE_INVALID makes up a close
\* notification (op ZXRIO_CLOSE, datalen 0, hcount 0, arg 0), calls the
\* callback exactly once with it, reads nothing, sends nothing, and returns
\* ZX_OK whatever the callback returns.
C15_InvalidHandleSynthesizesClose ==
    (call = "zxrio_handler" /\ args.h = ZX_HANDLE_INVALID) =>
        /\ Len(out.cbmsgs) = 1
        /\ out.cbmsgs[1].op = ZXRIO_CLOSE
        /\ out.cbmsgs[1].datalen = 0
        /\ out.cbmsgs[1].hcount = 0
        /\ out.cbmsgs[1].arg = 0
        /\ KindCount(log, "cb") = 1
        /\ KindCount(log, "read") = 0
        /\ KindCount(log, "write") = 0
        /\ out.wire = <<>>
        /\ ret = ZX_OK

\* the callback returns an error for the notification, made in a message
\* local that held other values
C15_Witness ==
    /\ call = "zxrio_handler"
    /\ args.h = ZX_HANDLE_INVALID
    /\ args.stack.op = ZXRIO_WRITE
    /\ args.cb.v = ZX_ERR_NOT_SUPPORTED
    /\ KindCount(log, "cb") = 1
    /\ ret = ZX_OK

\* C16: when a message read by zxrio_read_msg fails validation, every handle
\* received with it is closed (once) and zxrio_handle_rpc returns
\* ZX_ERR_INVALID_ARGS without calling the callback or sending a reply; when
\* the read itself fails, its error is returned and the callback is not
\* called.
C16_BadRequestClosesHandles ==
    (call = "zxrio_handler" /\ args.h # ZX_HANDLE_INVALID) =>
        LET e == args.env
            got == {ReplyHandle(i) : i \in 1..e.nh}
        IN  /\ (e.rr = ZX_OK /\ (e.dsize < ZXRIO_HDR_SZ
                                 \/ e.datalen # e.dsize - ZXRIO_HDR_SZ)) =>
                /\ ret = ZX_ERR_INVALID_ARGS
                /\ \A h \in got : CloseCount(log, h) = 1
                /\ KindCount(log, "close") = e.nh
                /\ live \cap got = {}
                /\ KindCount(log, "cb") = 0
                /\ KindCount(log, "write") = 0
            /\ e.rr # ZX_OK =>
                /\ ret = e.rr
                /\ KindCount(log, "cb") = 0
                /\ KindCount(log, "write") = 0
                /\ KindCount(log, "close") = 0

\* a request longer than its datalen says arrives with three handles
C16_Witness ==
    /\ call = "zxrio_handler"
    /\ args.h # ZX_HANDLE_INVALID
    /\ args.env.rr = ZX_OK
    /\ args.env.dsize = ZXRIO_HDR_SZ + 16
    /\ args.env.nh = FDIO_MAX_HANDLES
    /\ ret = ZX_ERR_INVALID_ARGS
    /\ KindCount(log, "close") = FDIO_MAX_HANDLES
    /\ KindCount(log, "cb") = 0

\* C18: when zxrio_respond is given a negative arg or a message that fails
\* is_message_valid, every handle of the message is discarded, datalen and
\* hcount are set to 0, and arg is kept if it was negative and is
\* ZX_ERR_INTERNAL otherwise; in every case the message written has op
\* ZXRIO_STATUS.
C18_RespondSanitizesBadReply ==
    (call = "zxrio_respond") =>
        LET m == args.msg
            held == {OutHandle(i) : i \in 1..m.hcount}
            bad == \/ m.arg < 0
                   \/ m.datalen > FDIO_CHUNK_SIZE
                   \/ m.hcount > FDIO_MAX_HANDLES
        IN  /\ Len(out.wire) = 1
            /\ KindCount(log, "write") = 1
            /\ out.wire[1].op = ZXRIO_STATUS
            /\ bad =>
                /\ \A h \in held : CloseCount(log, h) = 1
                /\ KindCount(log, "close") = m.hcount
                /\ live \cap held = {}
                /\ out.wire[1].datalen = 0
                /\ out.wire[1].hcount = 0
                /\ msg.datalen = 0
                /\ msg.hcount = 0
                /\ out.wire[1].arg = IF m.arg < 0 THEN m.arg ELSE ZX_ERR_INTERNAL

\* a count of 5 is to be sent with one handle too many
C18_Witness ==
    /\ call = "zxrio_respond"
    /\ args.msg.arg = 5
    /\ args.msg.op = ZXRIO_READ
    /\ args.msg.hcount = FDIO_MAX_HANDLES + 1
    /\ out.wire[1].arg = ZX_ERR_INTERNAL
    /\ out.wire[1].op = ZXRIO_STATUS
    /\ KindCount(log, "close") = FDIO_MAX_HANDLES + 1

(***************************************************************************)
(* The transaction id counter over a connection's life.                    *)
(***************************************************************************)
\* steps followed from each starting point
MaxRun == 4

\* a count modulo 2^32 kept as two 16-bit halves, and the halves of a word
Half == 2^16
WordOf(x) == [hi |-> (x \div Half) % Half, lo |-> x % Half]
CountSucc(w) ==
    IF w.lo = Half - 1 THEN [hi |-> (w.hi + 1) % Half, lo |-> 0]
    ELSE [w EXCEPT !.lo = @ + 1]
CountAdd(w, n) ==
    [hi |-> (w.hi + (w.lo + n) \div Half) % Half, lo |-> (w.lo + n) % Half]

\* connections that have sent so many requests: none, 2^31 - 3, 2^32 - 4
\* (counter 1, 0x7FFFFFFE, 0xFFFFFFFD)
UsedConnections ==
    {[fresh |-> TRUE, sent |-> [hi |-> 0, lo |-> 0], txid |-> 0],
     [fresh |-> FALSE, sent |-> [hi |-> 32767, lo |-> 65533], txid |-> 2147483646],
     [fresh |-> FALSE, sent |-> [hi |-> 65535, lo |-> 65532], txid |-> -3]}

\* a connection as fdio_remote_create made it, or as it is after the last of
\* its requests so far, a transaction answered with status 0
InitTxid ==
    \E u \in UsedConnections :
        LET c == fdio_remote_create(Kernel({1, 2}), 1, 2, TRUE).rio
        IN  /\ rio = IF u.fresh THEN c ELSE [c EXCEPT !.txid = u.txid]
            /\ live = {1, 2}
            /\ call = IF u.fresh THEN "fdio_remote_create" ELSE "zxrio_txn"
            /\ args = IF u.fresh THEN [h |-> 1, e |-> 2, ok |-> TRUE]
                      ELSE [msg |-> OutMsg(ZXRIO_IOCTL, 0, 0),
                            env |-> StatusReply(0, 0, 0)]
            /\ ret = IF u.fresh THEN 1 ELSE 0
            /\ msg = IF u.fresh THEN ZeroMsg
                     ELSE [ZeroMsg EXCEPT !.txid = u.txid - 1]
            /\ out = [sent |-> u.sent, run |-> 0,
                      stamped |-> IF u.fresh THEN 0 ELSE 1]
            /\ log = IF u.fresh THEN <<>> ELSE <<<<"call", 1, 0>>>>
            /\ closes = [h \in RioHandles |-> 0]

TxidEnvs ==
    {WriteFail(ZX_ERR_PEER_CLOSED), ReadFail(ZX_ERR_PEER_CLOSED),
     StatusReply(0, 0, 0), StatusReply(ZX_ERR_NOT_SUPPORTED, 0, 1)}

\* what every action of this part does: n is the number of requests that
\* passed validation in the call
TxidDone(name, a, t, c, n) ==
    /\ rio' = c
    /\ live' = t.k.live
    /\ call' = name
    /\ args' = a
    /\ ret' = t.r
    /\ msg' = t.msg
    /\ out' = [sent |-> CountAdd(out.sent, n), run |-> out.run + 1, stamped |-> n]
    /\ log' = t.k.log
    /\ closes' = Closes(t.k.log)

TxidTxn ==
    /\ rio.alloc /\ out.run < MaxRun
    /\ \E m \in {OutMsg(ZXRIO_IOCTL, 0, 0), OutMsg(ZXRIO_IOCTL, 8, 1),
                 OutMsg(ZXRIO_IOCTL, FDIO_CHUNK_SIZE + 1, 0)},
          e \in TxidEnvs :
        /\ Feasible(rio, live, e)
        /\ LET t == zxrio_txn(rio, m, Entry(OutboundHandles(m)), e)
           IN  TxidDone("zxrio_txn", [msg |-> m, env |-> e], t,
                        [rio EXCEPT !.txid = t.txid],
                        IF is_message_valid(m) THEN 1 ELSE 0)

\* zxrio_close sends its ZXRIO_CLOSE request through zxrio_txn
TxidClose ==
    /\ rio.alloc /\ out.run < MaxRun
    /\ \E e \in TxidEnvs :
        /\ Feasible(rio, live, e)
        /\ LET t == zxrio_close(rio, Entry({}), e)
           IN  TxidDone("zxrio_close", [h |-> rio.h, h2 |-> rio.h2, env |-> e],
                        t, t.rio, 1)

\* zxrio_write sends one request per chunk
TxidWritten(len, script, t) ==
    TxidDone("zxrio_write",
             [op |-> ZXRIO_WRITE, len |-> len, offset |-> 0, script |-> script],
             [r |-> t.r, msg |-> t.st.msg, k |-> t.st.k],
             [rio EXCEPT !.txid = t.st.txid], Len(t.st.reqs))

TxidWrite ==
    /\ rio.alloc /\ out.run < MaxRun /\ rio.h \in live
    /\ \E len \in {0, 1, FDIO_CHUNK_SIZE + 1},
          script \in [nfull : {0, 1}, last : {"full", "fail"}] :
        TxidWritten(len, script, zxrio_write(rio, Entry({}), len, script))

NextTxid == TxidTxn \/ TxidClose \/ TxidWrite

SpecTxid == InitTxid /\ [][NextTxid]_vars

\* C17: the counter of a connection is 1 when fdio_remote_create returns it;
\* each zxrio_txn that passes validation stamps the message with the
\* counter's value and adds exactly 1 to it, and nothing else changes it: the
\* counter is always the number of requests sent plus one, and the k-th
\* request carries txid k, modulo 2^32.
C17_TxidCountsRequests ==
    /\ (call = "fdio_remote_create" /\ rio.alloc) => rio.txid = 1
    /\ WordOf(rio.txid) = CountSucc(out.sent)
    /\ (call \in {"zxrio_txn", "zxrio_close", "zxrio_write"} /\ out.stamped > 0) =>
        WordOf(msg.txid) = out.sent
    /\ (call = "zxrio_txn" /\ ~is_message_valid(args.msg)) =>
        (out.stamped = 0 /\ msg.txid = args.msg.txid)

\* the request after number 2^32 - 1 carries txid 0
C17_Witness ==
    /\ call = "zxrio_txn"
    /\ is_message_valid(args.msg)
    /\ out.sent = [hi |-> 0, lo |-> 0]
    /\ out.run > 0
    /\ msg.txid = 0
    /\ rio.txid = 1

\* zxrio_open_handle_raw got a describe record: zxrio_getobject did not fail
RawDescribed ==
    /\ call = "zxrio_open_handle_raw"
    /\ ~args.null
    /\ args.len < PATH_MAX
    /\ args.env.cr = ZX_OK
    /\ IF FlagSet(args.flags, ZX_FS_FLAG_DESCRIBE)
       THEN /\ args.env.ws = ZX_OK
            /\ args.env.rr = ZX_OK
            /\ ~(args.env.dsize = SizeofDescribe /\ args.env.op = ZXRIO_ON_OPEN
                 /\ args.env.status < 0)
            /\ ~(args.env.dsize # SizeofDescribe \/ args.env.op # ZXRIO_ON_OPEN)
       ELSE args.env.ws = ZX_OK

\* the type of the describe record, and whether an auxiliary handle came
RawType ==
    IF FlagSet(args.flags, ZX_FS_FLAG_DESCRIBE) THEN args.env.type
    ELSE FDIO_PROTOCOL_REMOTE
RawAux == FlagSet(args.flags, ZX_FS_FLAG_DESCRIBE) /\ args.env.nh > 0

\* C19: zxrio_open_handle_raw returns only the control handle when the
\* describe record's type is FDIO_PROTOCOL_REMOTE, closing the auxiliary
\* handle if one came; for any other type it closes the control handle and
\* any auxiliary handle exactly once and returns ZX_ERR_WRONG_TYPE, leaving
\* the caller with no handle.
C19_RawReturnsControlOnly ==
    RawDescribed =>
        /\ \A h \in OpenHandles : CloseCount(log, h) <= 1
        /\ RawAux => (CloseCount(log, AuxHandle) = 1 /\ AuxHandle \notin live)
        /\ IF RawType = FDIO_PROTOCOL_REMOTE
           THEN /\ ret = ZX_OK
                /\ out.written
                /\ out.h = LocalEnd
                /\ LocalEnd \in live
                /\ CloseCount(log, LocalEnd) = 0
           ELSE /\ ret = ZX_ERR_WRONG_TYPE
                /\ ~out.written
                /\ CloseCount(log, LocalEnd) = 1
                /\ live \cap OpenHandles = {}

(***************************************************************************)
(* Poll events and channel signals: zxrio_wait_begin.                      *)
(***************************************************************************)
POLL_SHIFT == 24
POLL_MASK == 31
POLLIN == 1
POLLPRI == 2
POLLOUT == 4
POLLERR == 8
POLLHUP == 16
POLLNVAL == 32
POLLRDHUP == 8192
ZX_CHANNEL_PEER_CLOSED == 4

\* static_assert((POLLERR << POLL_SHIFT) == DEVICE_SIGNAL_ERROR, "")
DEVICE_SIGNAL_ERROR == POLLERR * 2^POLL_SHIFT

\* a & b and a | b on non-negative integers
RECURSIVE BitAnd(_, _)
BitAnd(a, b) ==
    IF a = 0 \/ b = 0 THEN 0
    ELSE (a % 2) * (b % 2) + 2 * BitAnd(a \div 2, b \div 2)
RECURSIVE BitOr(_, _)
BitOr(a, b) ==
    IF a = 0 THEN b
    ELSE IF b = 0 THEN a
    ELSE (IF a % 2 = 1 \/ b % 2 = 1 THEN 1 ELSE 0) + 2 * BitOr(a \div 2, b \div 2)

\* x << n, for values that stay within 32 bits
ShiftLeft(x, n) == x * 2^n

\* zxrio_wait_begin that asks for the error signal only when the caller did
zxrio_wait_begin_maskable(c, events) ==
    LET signals == IF BitAnd(events, POLLRDHUP) # 0
                   THEN BitOr(0, ZX_CHANNEL_PEER_CLOSED) ELSE 0
    IN  [handle |-> c.h2,
         signals |-> BitOr(ShiftLeft(BitAnd(events, POLL_MASK), POLL_SHIFT),
                           signals)]

\* zxrio_wait_begin(io, events, handle, _signals)
zxrio_wait_begin(c, events) ==
    LET signals == IF BitAnd(events, POLLRDHUP) # 0
                   THEN BitOr(0, ZX_CHANNEL_PEER_CLOSED) ELSE 0
    IN  [handle |-> c.h2,
         signals |-> BitOr(ShiftLeft(BitAnd(BitOr(POLLERR, events), POLL_MASK),
                                     POLL_SHIFT),
                           signals)]

\* the sum of a set of distinct bits
RECURSIVE BitsOf(_)
BitsOf(S) == IF S = {} THEN 0 ELSE LET b == CHOOSE x \in S : TRUE
                                   IN  b + BitsOf(S \ {b})

\* events values: every combination of the poll bits below
PollEvents ==
    {BitsOf(S) : S \in SUBSET {POLLIN, POLLPRI, POLLOUT, POLLERR, POLLHUP,
                               POLLNVAL, POLLRDHUP}}

ZxrioWaitBegin ==
    /\ rio.alloc
    /\ \E events \in PollEvents :
        LET t == zxrio_wait_begin(rio, events)
        IN  /\ call' = "zxrio_wait_begin"
            /\ args' = [events |-> events]
            /\ ret' = 0
            /\ out' = t
            /\ msg' = ZeroMsg
            /\ log' = <<>>
            /\ closes' = Closes(<<>>)
            /\ UNCHANGED <<rio, live>>

NextWait == ZxrioWaitBegin

SpecWait == Init /\ [][NextWait]_vars

\* C20: for every events value given to zxrio_wait_begin the signal mask it
\* stores includes the error signal DEVICE_SIGNAL_ERROR (POLLERR << POLL_SHIFT),
\* whether or not events had POLLERR.
C20_ErrorSignalAlwaysIncluded ==
    (call = "zxrio_wait_begin") =>
        BitAnd(out.signals, DEVICE_SIGNAL_ERROR) = DEVICE_SIGNAL_ERROR

\* the caller asks for POLLIN and POLLRDHUP only
C20_Witness ==
    /\ call = "zxrio_wait_begin"
    /\ args.events = POLLIN + POLLRDHUP
    /\ out.signals = ShiftLeft(POLLIN + POLLERR, POLL_SHIFT) + ZX_CHANNEL_PEER_CLOSED
    /\ out.handle = rio.h2

(***************************************************************************)
(* zxrio_txn: the return taken before anything is sent.                    *)
(***************************************************************************)
\* C21: on every error return of zxrio_txn no handle is left in the message:
\* msg.hcount is 0 and none of the handles the caller put in the message is
\* still open, also on the return taken when the message fails validation
\* (ZX_ERR_INVALID_ARGS).
C21_TxnErrorLeavesNoHandles ==
    (call = "zxrio_txn" /\ ret < 0) =>
        /\ msg.hcount = 0
        /\ live \cap OutboundHandles(args.msg) = {}


(***************************************************************************)
(* zxrio_ioctl: what becomes of the handles of a successful reply.         *)
(***************************************************************************)
\* how many handles an ioctl kind hands to the caller
IoctlTakes(kind) ==
    CASE kind = IOCTL_KIND_GET_HANDLE        -> 1
      [] kind = IOCTL_KIND_GET_TWO_HANDLES   -> 2
      [] kind = IOCTL_KIND_GET_THREE_HANDLES -> 3
      [] OTHER                               -> 0

\* C22: after a successful zxrio_ioctl every handle of the reply is either
\* delivered in the output buffer (the first min(hcount, k) handles of a
\* get-k-handles kind, still open and not closed) or closed exactly once (the
\* surplus, and every handle for the other kinds); none is both undelivered
\* and left open.
C22_IoctlReplyHandlesDeliveredOrClosed ==
    (call = "zxrio_ioctl" /\ ret >= 0) =>
        LET k == IoctlTakes(IOCTL_KIND(args.op))
            nh == args.env.nh
            n == IF nh > k THEN k ELSE nh
        IN  \A i \in 1..nh :
                IF i <= n
                THEN /\ \E j \in 1..Len(out) : out[j] = ReplyHandle(i)
                     /\ ReplyHandle(i) \in live
                     /\ CloseCount(log, ReplyHandle(i)) = 0
                ELSE /\ ReplyHandle(i) \notin live
                     /\ CloseCount(log, ReplyHandle(i)) = 1


(***************************************************************************)
(* fdio_create_fd.  fdio_bind_to_fd, fdio_close and fdio_release are not   *)
(* in the file: bound says whether fdio_bind_to_fd found a descriptor, and *)
(* fdio_close runs the object's close operation, zxrio_close for a remote  *)
(* object and the closing of the handles it holds for the others.          *)
(***************************************************************************)
ZX_ERR_BAD_STATE == -20

PA_FDIO_REMOTE == 50
PA_FDIO_PIPE == 51
PA_FDIO_SOCKET == 54

\* PA_HND_TYPE(n) = ((n) & 0xFF)
PA_HND_TYPE(n) == n % 256

\* fdio_close(io); fdio_release(io)
fdio_close(k, io, e) ==
    IF io.kind = "remote"
    THEN zxrio_close([alloc |-> TRUE, h |-> io.hs[1], h2 |-> io.hs[2], txid |-> 1],
                     k, e).k
    ELSE CloseAll(k, SelectSeq(io.hs, LAMBDA h : h # ZX_HANDLE_INVALID))

\* fdio_create_fd(handles, types, hcount, fd_out); type0 is types[0]
fdio_create_fd(k, handles, type0, hcount, newSocket, ok, bound, e) ==
    LET pa == PA_HND_TYPE(type0)
        known == pa \in {PA_FDIO_REMOTE, PA_FDIO_PIPE, PA_FDIO_SOCKET}
        type == CASE pa = PA_FDIO_REMOTE -> FDIO_PROTOCOL_REMOTE
                  [] pa = PA_FDIO_PIPE   -> FDIO_PROTOCOL_PIPE
                  [] OTHER               -> FDIO_PROTOCOL_SOCKET_CONNECTED
        f == fdio_from_handles(k, type, handles, hcount, [offset |-> 0, length |-> 0],
                               newSocket, ok)
    IN  IF ~known
        THEN [r |-> ZX_ERR_IO, fd |-> -1,
              k |-> discard_handles(k, handles, 0, hcount)]
        ELSE IF f.r # ZX_OK
        THEN [r |-> f.r, fd |-> -1,
              k |-> discard_handles(f.k, handles, 0, hcount)]
        ELSE IF ~bound
        THEN [r |-> ZX_ERR_BAD_STATE, fd |-> -1, k |-> fdio_close(f.k, f.io, e)]
        ELSE [r |-> ZX_OK, fd |-> 3, k |-> f.k]

\* types[0] values: the three tags the function knows, with and without an
\* argument in the upper half, and one it does not know
CreateFdTypes ==
    {PA_FDIO_REMOTE, PA_FDIO_PIPE, PA_FDIO_SOCKET, PA_FDIO_REMOTE + 2^16,
     PA_FDIO_REMOTE + 2}

FdioCreateFd ==
    \E type0 \in CreateFdTypes, hcount \in 0..FDIO_MAX_HANDLES,
       newSocket \in BOOLEAN, ok \in BOOLEAN, bound \in BOOLEAN,
       e \in {StatusReply(0, 0, 0), WriteFail(ZX_ERR_PEER_CLOSED)} :
        LET t == fdio_create_fd(Entry(SuppliedHandles(hcount)), FromHandles,
                                type0, hcount, newSocket, ok, bound, e)
        IN  /\ call' = "fdio_create_fd"
            /\ args' = [type0 |-> type0, hcount |-> hcount, newSocket |-> newSocket,
                        ok |-> ok, bound |-> bound, env |-> e]
            /\ ret' = t.r
            /\ live' = t.k.live
            /\ log' = t.k.log
            /\ out' = [fd |-> t.fd]
            /\ msg' = ZeroMsg
            /\ closes' = Closes(t.k.log)
            /\ UNCHANGED rio

NextFd == FdioCreateFd

SpecFd == Init /\ [][NextFd]_vars

\* C23: on every failure return of fdio_create_fd each supplied handle has
\* been closed exactly once and none is left open, also when
\* fdio_from_handles rejected the handles and fdio_create_fd then runs its own
\* fail path.
C23_CreateFdFailureClosesOnce ==
    (call = "fdio_create_fd" /\ ret # ZX_OK) =>
        \A h \in SuppliedHandles(args.hcount) :
            /\ CloseCount(log, h) = 1
            /\ h \notin live


C25_TransportFailurePhases ==
    (call = "zxrio_txn" /\ is_message_valid(args.msg)) =>
        LET e == args.env
            sent == OutboundHandles(args.msg)
        IN  /\ TxnWriteFailed(e) =>
                /\ ret = e.r
                /\ \A h \in sent : CloseCount(log, h) = 1
                /\ KindCount(log, "close") = Cardinality(sent)
                /\ live \cap sent = {}
                /\ msg.hcount = 0
            /\ TxnReadFailed(e) =>
                /\ ret = e.rs
                /\ ret # ZX_ERR_CALL_FAILED
                /\ KindCount(log, "close") = 0
                /\ live \cap sent = {}
                /\ msg.hcount = 0

\* the read of the reply fails after two handles were sent
C25_Witness ==
    /\ call = "zxrio_txn"
    /\ args.env = ReadFail(ZX_ERR_PEER_CLOSED)
    /\ args.msg.hcount = 2
    /\ args.msg.datalen = 0
    /\ ret = ZX_ERR_PEER_CLOSED
    /\ KindCount(log, "close") = 0
    /\ live \cap {OutHandle(1), OutHandle(2)} = {}


(***************************************************************************)
(* zxrio_respond: what becomes of the handles of the outgoing message.     *)
(***************************************************************************)
\* C26: after zxrio_respond returns, every handle that was in the outgoing
\* message has been disposed of exactly once: handed to the transport by a
\* write that succeeded (and then not closed), or closed once by
\* zxrio_respond, on the error or invalid-message path or when the write
\* failed; none is closed twice, in particular not when the error path is
\* followed by a failed write, and none is left open here.
C26_RespondDisposesHandlesOnce ==
    (call = "zxrio_respond") =>
        LET m == args.msg
            held == {OutHandle(i) : i \in 1..m.hcount}
            bad == (m.arg < 0) \/ ~is_message_valid(m)
            closed == bad \/ args.ws # ZX_OK
        IN  /\ live \cap held = {}
            /\ \A h \in held : CloseCount(log, h) = IF closed THEN 1 ELSE 0
            /\ KindCount(log, "close") = IF closed THEN m.hcount ELSE 0
            /\ out.wire[1].hcount = IF bad THEN 0 ELSE m.hcount
            /\ ret = args.ws

\* an error reply that held three handles fails to be written
C26_Witness ==
    /\ call = "zxrio_respond"
    /\ args.msg.arg = ZX_ERR_NOT_SUPPORTED
    /\ args.msg.hcount = FDIO_MAX_HANDLES
    /\ args.ws = ZX_ERR_PEER_CLOSED
    /\ ret = ZX_ERR_PEER_CLOSED
    /\ KindCount(log, "close") = FDIO_MAX_HANDLES
    /\ KindCount(log, "write") = 1


(***************************************************************************)
(* Chunked reads and writes: the offset each transaction carries.          *)
(***************************************************************************)
\* the byte count transaction i of the last read or write transferred: the
\* status its reply carried
RwMovedBy(i) ==
    RwEnv(args.script, i, out[i].xfer,
          args.op \in {ZXRIO_READ, ZXRIO_READ_AT}).arg

RECURSIVE RwMovedBefore(_)
RwMovedBefore(i) ==
    IF i <= 1 THEN 0 ELSE RwMovedBy(i - 1) + RwMovedBefore(i - 1)

\* C27: in read_at and write_at the offset word of the k-th transaction is
\* the caller's offset plus the sum of the byte counts transactions 1..k-1
\* transferred; in read and write the offset word of every transaction is 0.
C27_OffsetAdvancesByTransferred ==
    (call \in {"zxrio_read", "zxrio_write", "zxrio_read_at", "zxrio_write_at"}) =>
        \A i \in 1..Len(out) :
            out[i].off = IF call \in {"zxrio_read_at", "zxrio_write_at"}
                         THEN args.offset + RwMovedBefore(i)
                         ELSE 0

\* a write at offset 4096 of a chunk and a byte: the second transaction
\* carries the offset moved on by the chunk
C27_Witness ==
    /\ call = "zxrio_write_at"
    /\ args.offset = 4096
    /\ args.len = FDIO_CHUNK_SIZE + 1
    /\ Len(out) = 2
    /\ out[1].off = 4096
    /\ out[2].off = 4096 + FDIO_CHUNK_SIZE
    /\ ret = FDIO_CHUNK_SIZE + 1


(***************************************************************************)
(* The hcount field of a received message.  zxrio_handler runs twice on    *)
(* the same delivery, which differs between the runs only in the hcount    *)
(* field of the bytes the peer wrote; out holds what each run did.         *)
(***************************************************************************)
\* deliveries with a whole header or less, a payload length that matches the
\* size or not, and from none to FDIO_MAX_HANDLES handles
FieldInbounds ==
    {Inbound(ZX_OK, ds, nh, op, 0, 8) :
        ds \in {4, ZXRIO_HDR_SZ + 8, ZXRIO_HDR_SZ + 16},
        nh \in 0..FDIO_MAX_HANDLES, op \in {ZXRIO_READ, ZXRIO_CLOSE}}

\* values of the hcount field: none, some, one more than a message may carry
FieldValues == {0, 2, FDIO_MAX_HANDLES + 1}

ZxrioHandlerTwice ==
    /\ rio.alloc /\ rio.h \in live
    /\ \E e \in FieldInbounds, a \in FieldValues, b \in FieldValues,
          cb \in {CbOutcome(0, 8, FALSE, 0), CbOutcome(ZX_ERR_NOT_SUPPORTED, 0, FALSE, 0),
                  CbOutcome(ERR_DISPATCHER_ASYNC, 0, FALSE, 0)} :
        a < b /\
        LET k == Entry({})
            ta == zxrio_handler(k, rio.h, ZeroMsg, Embedded(e, a), cb, ZX_OK)
            tb == zxrio_handler(k, rio.h, ZeroMsg, Embedded(e, b), cb, ZX_OK)
        IN  /\ call' = "zxrio_handler twice"
            /\ args' = [h |-> rio.h, env |-> e, a |-> a, b |-> b, cb |-> cb]
            /\ ret' = ta.r
            /\ live' = ta.k.live
            /\ log' = ta.k.log
            /\ out' = <<ta, tb>>
            /\ msg' = ta.msg
            /\ closes' = Closes(ta.k.log)
            /\ UNCHANGED rio

NextField == ZxrioHandlerTwice

SpecField == Init /\ [][NextField]_vars

\* C28: the hcount field of a received message does not influence parsing.
\* zxrio_read_msg overwrites msg->hcount with the transport's count before it
\* validates, so two deliveries that differ only in that field give the same
\* validation outcome, the same handles closed on failure and the same hcount
\* to the callback, and these are what the transport's count dictates: a
\* delivery that is not framed has exactly its delivered handles closed, once
\* each, and the callback of one that is framed sees the transport's count.
C28_EmbeddedHcountIgnored ==
    (call = "zxrio_handler twice") =>
        LET e == args.env
            framed == e.dsize >= ZXRIO_HDR_SZ /\ e.datalen = e.dsize - ZXRIO_HDR_SZ
            got == {ReplyHandle(i) : i \in 1..e.nh}
        IN  /\ out[1] = out[2]
            /\ \A t \in {out[1], out[2]} :
                /\ framed <=> t.r # ZX_ERR_INVALID_ARGS
                /\ ~framed =>
                    /\ \A h \in got : CloseCount(t.k.log, h) = 1
                    /\ KindCount(t.k.log, "close") = e.nh
                    /\ KindCount(t.k.log, "cb") = 0
                    /\ t.k.live \cap got = {}
                /\ framed =>
                    /\ Len(t.cbmsgs) = 1
                    /\ t.cbmsgs[1].hcount = e.nh
                    /\ KindCount(t.k.log, "cb") = 1

\* a framed request with two handles says none in one delivery and four in
\* the other; the callback sees two both times
C28_Witness ==
    /\ call = "zxrio_handler twice"
    /\ args.a = 0
    /\ args.b = FDIO_MAX_HANDLES + 1
    /\ args.env.nh = 2
    /\ args.env.dsize = ZXRIO_HDR_SZ + 8
    /\ out[1].cbmsgs[1].hcount = 2
    /\ out[2].cbmsgs[1].hcount = 2


(***************************************************************************)
(* Several threads in zxrio_txn on one connection.  A thread validates its *)
(* message, takes its transaction id in the one atomic step of line 214,   *)
(* and later makes its channel call and returns; the steps of different    *)
(* threads interleave in any order.                                        *)
(***************************************************************************)
\* threads that share the connection
NThreads == 3
\* requests stamped on the connection in one behaviour
MaxStamps == 3

Threads == 1..NThreads

InitThreads ==
    /\ rio = fdio_remote_create(Kernel({1}), 1, 0, TRUE).rio
    /\ live = {1}
    /\ call = "fdio_remote_create"
    /\ args = [h |-> 1, e |-> 0, ok |-> TRUE]
    /\ ret = 1
    /\ msg = ZeroMsg
    /\ out = [pc |-> [t \in Threads |-> "idle"],
              m |-> [t \in Threads |-> ZeroMsg],
              stamped |-> <<>>]
    /\ log = <<>>
    /\ closes = [h \in RioHandles |-> 0]

\* lines 210-212: the thread enters with its message; one that fails
\* validation returns at once
ThreadEnter(t) ==
    /\ out.pc[t] = "idle"
    /\ \E m \in {OutMsg(ZXRIO_IOCTL, 0, 0), OutMsg(ZXRIO_IOCTL, FDIO_CHUNK_SIZE + 1, 0)} :
        LET r == zxrio_txn(rio, m, Kernel(live), WriteFail(ZX_ERR_PEER_CLOSED))
        IN  IF is_message_valid(m)
            THEN /\ out' = [out EXCEPT !.pc[t] = "valid", !.m[t] = m]
                 /\ call' = "zxrio_txn: enter"
                 /\ args' = [thread |-> t, msg |-> m]
                 /\ UNCHANGED <<rio, live, ret, msg, log, closes>>
            ELSE /\ out' = out
                 /\ call' = "zxrio_txn: return"
                 /\ args' = [thread |-> t, msg |-> m]
                 /\ ret' = r.r
                 /\ msg' = r.msg
                 /\ rio' = [rio EXCEPT !.txid = r.txid]
                 /\ UNCHANGED <<live, log, closes>>

\* line 214: msg->txid = atomic_fetch_add(&rio->txid, 1)
ThreadStamp(t) ==
    /\ out.pc[t] = "valid"
    /\ Len(out.stamped) < MaxStamps
    /\ LET f == atomic_fetch_add(rio.txid)
       IN  /\ rio' = [rio EXCEPT !.txid = f.new]
           /\ out' = [out EXCEPT !.pc[t] = "stamped", !.m[t].txid = f.old,
                                 !.stamped = Append(@, [thread |-> t, txid |-> f.old])]
           /\ call' = "zxrio_txn: stamp"
           /\ args' = [thread |-> t, msg |-> out.m[t]]
           /\ UNCHANGED <<live, ret, msg, log, closes>>

\* lines 216-260: the channel call with the stamped message, and the return
ThreadCall(t) ==
    /\ out.pc[t] = "stamped"
    /\ \E e \in {StatusReply(0, 0, 0), ReadFail(ZX_ERR_PEER_CLOSED)} :
        LET r == zxrio_txn([rio EXCEPT !.txid = out.m[t].txid], out.m[t],
                           Kernel(live), e)
        IN  /\ out' = [out EXCEPT !.pc[t] = "idle", !.m[t] = ZeroMsg]
            /\ call' = "zxrio_txn: return"
            /\ args' = [thread |-> t, msg |-> out.m[t]]
            /\ ret' = r.r
            /\ msg' = r.msg
            /\ live' = r.k.live
            /\ log' = r.k.log
            /\ closes' = Closes(r.k.log)
            /\ UNCHANGED rio

NextThreads ==
    \E t \in Threads : ThreadEnter(t) \/ ThreadStamp(t) \/ ThreadCall(t)

SpecThreads == InitThreads /\ [][NextThreads]_vars

\* C29: the transaction id is taken by one atomic fetch-and-add.  However the
\* steps of several threads in zxrio_txn on one connection interleave, no two
\* of their requests get the same txid, and the counter stands at its first
\* value plus the number of requests stamped: no update is lost.
C29_ConcurrentTxidsDistinct ==
    /\ \A i \in 1..Len(out.stamped), j \in 1..Len(out.stamped) :
            i # j => out.stamped[i].txid # out.stamped[j].txid
    /\ rio.txid = 1 + Len(out.stamped)
    /\ \A t \in Threads :
            out.pc[t] = "stamped" =>
                \E i \in 1..Len(out.stamped) :
                    /\ out.stamped[i] = [thread |-> t, txid |-> out.m[t].txid]
                    /\ \A j \in (i + 1)..Len(out.stamped) : out.stamped[j].thread # t

\* three threads hold a transaction id each before any has made its call
C29_Witness ==
    /\ \A t \in Threads : out.pc[t] = "stamped"
    /\ Len(out.stamped) = NThreads
    /\ rio.txid = 1 + NThreads
    /\ {out.m[t].txid : t \in Threads} = 1..NThreads
    /\ out.stamped[1].thread = 3

====
